---------------------------- MODULE Spec2Model ----------------------------
(***************************************************************************)
(* Model of the newsletter sanitization engine of De Dagkrant              *)
(* (src/src/cleaner.py): the raw-text prefilter, the BeautifulSoup tree    *)
(* the passes mutate, the pruning passes, and deduplicate_title.           *)
(*                                                                         *)
(* Strings are sequences of chunks.  A chunk is a literal piece of text of *)
(* a known length (ChunkLen); one-character chunks are characters.  An     *)
(* HTML string is a sequence of markup tokens; BeautifulSoup(html,         *)
(* "html.parser") is Parse and str(soup) is Serialize.                     *)
(***************************************************************************)
EXTENDS Integers, Sequences, FiniteSets, TLC

VARIABLES
    pc,       \* position in the function under execution
    html,     \* html_content: the markup string the function works on
    soup,     \* the BeautifulSoup tree (an arena of nodes), <<>> before parsing
    subject,  \* deduplicate_title's subject argument
    start,    \* the tree (or string) as it was when the pass under study started
    first,    \* clean_html: the result of the previous run of the pipeline
    trace,    \* clean_html: the passes executed so far in this run, in order
    newsletters, \* the list of newsletter dicts of fetcher.py and main.py
    raising,  \* the nodes whose text extraction or attribute access raises
    climbFrom, \* _find_smallest_killable_parent's argument elem, 0 outside a call
    climbTo,  \* _find_smallest_killable_parent's result target, 0 before the return
    todo,     \* the part of a loop's snapshot list that is still to be visited
    processed, \* main.py: the list of the newsletters that came through the loop
    log,      \* main.py: the warnings and errors the loop has logged
    chunks,   \* translator._split_html: the list of chunks returned
    seen_message_ids  \* fetcher.fetch_newsletters: the Message-IDs met so far

vars == <<pc, html, soup, subject, start, first, trace, newsletters, raising, climbFrom, climbTo,
          todo, processed, log, chunks, seen_message_ids>>

-----------------------------------------------------------------------------
(* Generic sequence helpers                                                *)

\* A Python for-loop over a snapshot list: acc = Op(acc, s[i]) for each i.
FoldSeq(Op(_, _), acc0, s) ==
    LET F[i \in 0..Len(s)] == IF i = 0 THEN acc0 ELSE Op(F[i - 1], s[i])
    IN  F[Len(s)]

\* [x for x in s if Test(x)]
SelectSeq2(s, Test(_)) ==
    FoldSeq(LAMBDA acc, x : IF Test(x) THEN Append(acc, x) ELSE acc, <<>>, s)

\* list.remove(x) for a list without duplicates
RemoveElem(s, x) == SelectSeq2(s, LAMBDA y : y # x)

\* reversed(s)
Reverse(s) == [i \in 1..Len(s) |-> s[Len(s) + 1 - i]]

\* the elements of a list, as a set
Range(s) == {s[i] : i \in DOMAIN s}

\* All sequences over S of length 0..n.
RECURSIVE SeqsUpTo(_, _)
SeqsUpTo(S, n) ==
    IF n = 0 THEN {<<>>}
    ELSE LET shorter == SeqsUpTo(S, n - 1)
         IN  shorter \cup {Append(s, x) : s \in {t \in shorter : Len(t) = n - 1}, x \in S}

-----------------------------------------------------------------------------
(* Text: sequences of chunks                                               *)

\* Number of characters of a chunk.  One-character chunks are characters;
\* the longer ones are literal phrases the rule tables look for, or stretches
\* of article text that match no rule.
ChunkLen(c) ==
    CASE c = "art300"          -> 300     \* article text
      [] c = "art1800"         -> 1800    \* article text
      [] c = "foot300"         -> 300     \* a footer paragraph with "unsubscribe" in it
      [] c = "foot11"          -> 11      \* "unsubscribe"
      [] c = "viewonline"      -> 11      \* "view online"
      [] c = "share"           -> 5       \* "Share"
      [] c = "googleplay"      -> 11      \* "Google Play"
      [] c = "webontwikkeling" -> 15      \* "webontwikkeling"
      [] c = "welkom"          -> 23      \* "welkom bij onze website"
      [] c = "sponsored"       -> 9       \* "Sponsored"
      [] c = "advertentie"     -> 11      \* "ADVERTENTIE"
      [] c = "fwd"             -> 38      \* "---------- Forwarded message ---------"
      [] c = "fioretti"        -> 16      \* "Fioretti College"
      [] c = "boiler"          -> 50      \* "De AI-wereld ontwikkelt zich razendsnel"
      [] c = "reacties"        -> 8       \* "REACTIES"
      [] c = "promo"           -> 28      \* "Bekijk al onze nieuwsbrieven"
      [] c = "html"            -> 4       \* "html"
      [] c = "fence"           -> 3       \* three backquotes
      [] c = "fencehtml"       -> 7       \* three backquotes and "html"
      [] c = "cssrule"         -> 60      \* a style declaration list
      [] OTHER                 -> 1

\* len(text)
RECURSIVE TextLen(_)
TextLen(s) == IF s = <<>> THEN 0 ELSE ChunkLen(Head(s)) + TextLen(Tail(s))

IsSpace(c) == c \in {" ", "\n"}

\* str.strip()
RECURSIVE LStrip(_)
LStrip(s) == IF s # <<>> /\ IsSpace(Head(s)) THEN LStrip(Tail(s)) ELSE s
Strip(s) == Reverse(LStrip(Reverse(LStrip(s))))

\* str.lower()
LowerChunk(c) == CASE c = "A" -> "a" [] c = "B" -> "b" [] OTHER -> c
Lower(s) == [i \in 1..Len(s) |-> LowerChunk(s[i])]

-----------------------------------------------------------------------------
(* Markup tokens and the node arena                                        *)

Tok(k, tag, txt, width, height, style) ==
    [k |-> k, tag |-> tag, txt |-> txt, width |-> width, height |-> height,
     style |-> style]
OpenTag(tag)          == Tok("open", tag, <<>>, <<>>, <<>>, <<>>)
OpenStyled(tag, st)   == Tok("open", tag, <<>>, <<>>, <<>>, st)
ImgTag(w, h, st)      == Tok("open", "img", <<>>, w, h, st)
CloseTag(tag)         == Tok("close", tag, <<>>, <<>>, <<>>, <<>>)
TextTok(txt)          == Tok("text", "", txt, <<>>, <<>>, <<>>)
CommentTok(txt)       == Tok("comment", "", txt, <<>>, <<>>, <<>>)

\* Elements html.parser closes as soon as they open.
VoidTags == {"img", "br"}

Root == 1
NoParent == 0

MkNode(tag, parent, tok) ==
    [tag |-> tag, parent |-> parent, kids |-> <<>>, txt |-> tok.txt,
     width |-> tok.width, height |-> tok.height, style |-> tok.style,
     dec |-> FALSE]

\* BeautifulSoup("") : the [document] node alone
EmptySoup == << MkNode("[document]", NoParent, OpenTag("")) >>

\* parent.append(child) for a new node; its id is the next free arena slot
AddChild(nodes, p, rec) ==
    Append([nodes EXCEPT ![p].kids = Append(@, Len(nodes) + 1)], rec)

\* BeautifulSoup._popToTag: close the most recent open `name` and all above it
PopToTag(nodes, stack, name) ==
    LET hits == {i \in 2..Len(stack) : nodes[stack[i]].tag = name}
    IN  IF hits = {} THEN stack
        ELSE SubSeq(stack, 1, (CHOOSE i \in hits : \A j \in hits : j <= i) - 1)

\* html.parser feeds runs of character data as one string
MergeText(toks) ==
    FoldSeq(LAMBDA acc, t :
                IF t.k = "text" /\ acc # <<>> /\ acc[Len(acc)].k = "text"
                THEN [acc EXCEPT ![Len(acc)].txt = @ \o t.txt]
                ELSE Append(acc, t),
            <<>>, toks)

\* BeautifulSoup(html, "html.parser")
Parse(toks) ==
    LET step(st, t) ==
            LET top == st.stack[Len(st.stack)]
                id  == Len(st.nodes) + 1
            IN  CASE t.k = "open" ->
                       [nodes |-> AddChild(st.nodes, top, MkNode(t.tag, top, t)),
                        stack |-> IF t.tag \in VoidTags THEN st.stack
                                  ELSE Append(st.stack, id)]
                  [] t.k = "close" ->
                       [st EXCEPT !.stack = PopToTag(st.nodes, st.stack, t.tag)]
                  [] t.k = "comment" ->
                       [st EXCEPT !.nodes = AddChild(st.nodes, top, MkNode("#comment", top, t))]
                  [] OTHER ->
                       [st EXCEPT !.nodes = AddChild(st.nodes, top, MkNode("#text", top, t))]
    IN  FoldSeq(step, [nodes |-> EmptySoup, stack |-> <<Root>>], MergeText(toks)).nodes

IsTag(nodes, n) == nodes[n].tag \notin {"#text", "#comment"}

\* str(node): the markup of a subtree
RECURSIVE Markup(_, _)
Markup(nodes, n) ==
    LET nd   == nodes[n]
        self == Tok("x", nd.tag, nd.txt, nd.width, nd.height, nd.style)
        body == FoldSeq(LAMBDA acc, k : acc \o Markup(nodes, k), <<>>, nd.kids)
    IN  CASE nd.tag = "#text"      -> << [self EXCEPT !.k = "text", !.tag = ""] >>
          [] nd.tag = "#comment"   -> << [self EXCEPT !.k = "comment", !.tag = ""] >>
          [] nd.tag = "[document]" -> body
          [] nd.tag \in VoidTags   -> << [self EXCEPT !.k = "open"] >>
          [] OTHER -> << [self EXCEPT !.k = "open"] >> \o body \o << CloseTag(nd.tag) >>

\* str(soup): one string, so adjacent strings run together and an empty
\* string leaves no trace
Serialize(nodes) ==
    SelectSeq2(MergeText(Markup(nodes, Root)), LAMBDA t : t.k # "text" \/ t.txt # <<>>)

-----------------------------------------------------------------------------
(* Tree queries and mutations of BeautifulSoup                             *)

\* node.descendants: the subtree below n in document order
RECURSIVE Descendants(_, _)
Descendants(nodes, n) ==
    FoldSeq(LAMBDA acc, k : (acc \o <<k>>) \o Descendants(nodes, k), <<>>, nodes[n].kids)

\* node.find_all(names) ; find_all(True) is FindAllTags
FindAll(nodes, n, names) ==
    SelectSeq2(Descendants(nodes, n), LAMBDA m : nodes[m].tag \in names)
FindAllTags(nodes, n) ==
    SelectSeq2(Descendants(nodes, n), LAMBDA m : IsTag(nodes, m))

\* node.find(name): the first match or None (0)
Find(nodes, n, name) ==
    LET hits == FindAll(nodes, n, {name}) IN IF hits = <<>> THEN 0 ELSE hits[1]

\* node.get_text(strip=True): the stripped strings below n, concatenated.
\* Comments are not part of the text.
GetText(nodes, n) ==
    FoldSeq(LAMBDA acc, m : IF nodes[m].tag = "#text" THEN acc \o Strip(nodes[m].txt) ELSE acc,
            <<>>, IF nodes[n].tag = "#text" THEN <<n>> ELSE Descendants(nodes, n))

\* `x.parent is None`: true of an extracted node and of every node of a
\* decomposed subtree (decompose clears each node's __dict__)
Detached(nodes, n) == nodes[n].parent = NoParent

\* node.decompose(): detach n and destroy its subtree (\o <<>> makes the
\* arena a sequence value at once, as Append does)
Decompose(nodes, n) ==
    LET sub == {n} \cup Range(Descendants(nodes, n))
        p   == nodes[n].parent
    IN  [m \in 1..Len(nodes) |->
            IF m \in sub
            THEN [nodes[m] EXCEPT !.parent = NoParent, !.kids = <<>>, !.dec = TRUE]
            ELSE IF m = p THEN [nodes[m] EXCEPT !.kids = RemoveElem(@, n)]
            ELSE nodes[m]] \o <<>>

\* nodes reachable from the document root
Attached(nodes) == {Root} \cup Range(Descendants(nodes, Root))


-----------------------------------------------------------------------------
(* _remove_tracking_pixels (cleaner.py 405-433)                            *)
(* Attribute values are character strings; "px" is one chunk.              *)

Digits == {"0", "1", "2", "3", "4", "5", "6", "7", "8", "9"}
DigitVal(c) ==
    CASE c = "0" -> 0 [] c = "1" -> 1 [] c = "2" -> 2 [] c = "3" -> 3 [] c = "4" -> 4
      [] c = "5" -> 5 [] c = "6" -> 6 [] c = "7" -> 7 [] c = "8" -> 8 [] OTHER -> 9

\* str.replace("px", "")
ReplacePx(s) == SelectSeq2(s, LAMBDA c : c # "px")

\* int(s): the value, or ok = FALSE where Python raises ValueError
ParseInt(s) ==
    LET t == Strip(s)
    IN  IF t # <<>> /\ \A i \in 1..Len(t) : t[i] \in Digits
        THEN [ok |-> TRUE,
              val |-> FoldSeq(LAMBDA acc, c : 10 * acc + DigitVal(c), 0, t)]
        ELSE [ok |-> FALSE, val |-> 0]

\* position after the run of whitespace that starts at i
RECURSIVE SkipSpaces(_, _)
SkipSpaces(s, i) == IF i <= Len(s) /\ IsSpace(s[i]) THEN SkipSpaces(s, i + 1) ELSE i

\* re.search(r"(width|height)\s*:\s*[01](px)?", style)
StyleTinyRegex(style) ==
    \E i \in 1..Len(style) :
        /\ style[i] \in {"width", "height"}
        /\ LET j == SkipSpaces(style, i + 1)
           IN  /\ j <= Len(style) /\ style[j] = ":"
               /\ LET k == SkipSpaces(style, j + 1)
                  IN  k <= Len(style) /\ style[k] \in {"0", "1"}

\* case folding of the style keywords (re.IGNORECASE)
LowerWord(c) ==
    CASE c = "DISPLAY" -> "display" [] c = "NONE" -> "none"
      [] c = "WIDTH" -> "width" [] c = "HEIGHT" -> "height" [] OTHER -> c

\* re.search(r"display\s*:\s*none", style, re.IGNORECASE)
StyleDisplayNoneRegex(style) ==
    \E i \in 1..Len(style) :
        /\ LowerWord(style[i]) = "display"
        /\ LET j == SkipSpaces(style, i + 1)
           IN  /\ j <= Len(style) /\ style[j] = ":"
               /\ LET k == SkipSpaces(style, j + 1)
                  IN  k <= Len(style) /\ LowerWord(style[k]) = "none"

\* is_tiny, lines 417-430.  Both int() calls sit in one try block: a
\* ValueError on width leaves the block before height is looked at.
IsTiny(img) ==
    LET w    == ParseInt(ReplacePx(img.width))
        h    == ParseInt(ReplacePx(img.height))
        wErr == img.width # <<>> /\ ~w.ok
    IN  \/ img.width # <<>> /\ w.ok /\ w.val <= 3
        \/ ~wErr /\ img.height # <<>> /\ h.ok /\ h.val <= 3
        \/ img.style # <<>> /\ StyleTinyRegex(img.style)
        \/ img.style # <<>> /\ StyleDisplayNoneRegex(img.style)

RemoveTrackingPixels(nodes) ==
    FoldSeq(LAMBDA acc, img :
                IF Detached(acc, img) THEN acc
                ELSE IF IsTiny(acc[img]) THEN Decompose(acc, img)
                ELSE acc,
            nodes, FindAll(nodes, Root, {"img"}))

(* The inputs of the tracking-pixel pass: one image with every combination *)
(* of width, height and style, followed by a 600x400 image.                *)

MaxDigits == 2

SizeValues ==
    {d \o u : d \in SeqsUpTo({"3", "4"}, MaxDigits), u \in {<<>>, <<"px">>, <<"%">>}}

PixelStyles ==
    { <<>>,
      <<"width", ":", "1", "px">>,
      <<"height", " ", ":", " ", "0">>,
      <<"width", ":", "1", "0", "0", "px">>,
      <<"max-", "width", ":", "1", "0", "0", "%">>,
      <<"width", ":", "6", "0", "0", "px">>,
      <<"WIDTH", ":", "1", "px">>,
      <<"display", ":", "none">>,
      <<"DISPLAY", ":", " ", "NONE">>,
      <<"display", ":", "block", ";", "height", ":", "4", "0", "px">>,
      <<"color", ":", "none">> }

BigImage == ImgTag(<<"6", "0", "0">>, <<"4", "0", "0">>, <<>>)

InitPixels ==
    /\ \E w \in SizeValues, h \in SizeValues, st \in PixelStyles :
           html = << ImgTag(w, h, st), BigImage >>
    /\ soup = Parse(html)
    /\ start = soup
    /\ pc = "pixels"
    /\ subject = <<>> /\ first = <<>> /\ trace = <<>> /\ newsletters = <<>> /\ raising = {} /\ chunks = <<>> /\ seen_message_ids = {} /\ climbFrom = 0 /\ climbTo = 0 /\ todo = <<>> /\ processed = <<>> /\ log = <<>>

RunTrackingPixels ==
    /\ pc = "pixels"
    /\ soup' = RemoveTrackingPixels(soup)
    /\ pc' = "done"
    /\ UNCHANGED <<newsletters, raising, chunks, seen_message_ids, climbFrom, todo, processed, log, climbTo, html, subject, start, first, trace>>

SpecPixels == InitPixels /\ [][RunTrackingPixels]_vars

(* What the claims call a removal criterion, read off the attribute and    *)
(* the CSS declarations.                                                   *)

\* the declarations of a style value: the pieces between ";"
SplitDecls(style) ==
    LET st == FoldSeq(LAMBDA acc, c :
                          IF c = ";" THEN [done |-> Append(acc.done, acc.cur), cur |-> <<>>]
                          ELSE [acc EXCEPT !.cur = Append(@, c)],
                      [done |-> <<>>, cur |-> <<>>], style)
    IN  Append(st.done, st.cur)

DeclProp(d) ==
    LET c == SelectSeq2([i \in 1..Len(d) |-> i], LAMBDA i : d[i] = ":")
    IN  IF c = <<>> THEN <<>>
        ELSE [i \in 1..Len(Strip(SubSeq(d, 1, c[1] - 1))) |->
                 LowerWord(Strip(SubSeq(d, 1, c[1] - 1))[i])]
DeclValue(d) ==
    LET c == SelectSeq2([i \in 1..Len(d) |-> i], LAMBDA i : d[i] = ":")
    IN  IF c = <<>> THEN <<>>
        ELSE [i \in 1..Len(Strip(SubSeq(d, c[1] + 1, Len(d)))) |->
                 LowerWord(Strip(SubSeq(d, c[1] + 1, Len(d)))[i])]

SizeAttrTiny(a) == a # <<>> /\ ParseInt(ReplacePx(a)).ok /\ ParseInt(ReplacePx(a)).val <= 3
StyleSetsTinySize(style) ==
    \E i \in 1..Len(SplitDecls(style)) :
        /\ DeclProp(SplitDecls(style)[i]) \in {<<"width">>, <<"height">>}
        /\ DeclValue(SplitDecls(style)[i]) \in {<<"0">>, <<"1">>, <<"0", "px">>, <<"1", "px">>}
StyleSetsDisplayNone(style) ==
    \E i \in 1..Len(SplitDecls(style)) :
        /\ DeclProp(SplitDecls(style)[i]) = <<"display">>
        /\ DeclValue(SplitDecls(style)[i]) = <<"none">>

MeetsCriterion(img) ==
    \/ SizeAttrTiny(img.width)
    \/ SizeAttrTiny(img.height)
    \/ StyleSetsTinySize(img.style)
    \/ StyleSetsDisplayNone(img.style)

Images(nodes) == {n \in 1..Len(nodes) : nodes[n].tag = "img"}

\* C3: after the tracking-pixel pass no attached image meets a removal
\* criterion (tiny width, tiny height, 0/1 style size, display none), each
\* criterion counting on its own.
C3_NoPixelRemains ==
    pc = "done" =>
        \A n \in Images(soup) : n \in Attached(soup) => ~MeetsCriterion(start[n])

\* C4: the tracking-pixel pass removes only images that meet a removal
\* criterion; every other image is still attached after the pass.
C4_OnlyPixelsRemoved ==
    pc = "done" =>
        \A n \in Images(start) : ~MeetsCriterion(start[n]) => n \in Attached(soup)

-----------------------------------------------------------------------------
(* _remove_mso_conditionals (cleaner.py 340-364)                           *)
(* The conditional-comment markers are single tokens of the markup string: *)
(*   msoOpen      <!--[if mso]>  (any condition without "!")               *)
(*   endif        <![endif]-->                                             *)
(*   notMsoOpen   <!--[if !mso]><!-->                                      *)
(*   notMsoClose  <!--<![endif]-->                                         *)

MarkerTok(k) == Tok(k, "", <<>>, <<>>, <<>>, <<>>)

\* lines 347-348: strip the wrappers of non-mso content
StripNotMsoWrappers(s) == SelectSeq2(s, LAMBDA t : t.k \notin {"notMsoOpen", "notMsoClose"})

\* lines 351-356: re.sub(r"<!--\[if[^\]!]*\]>.*?<!\[endif\]-->", "", DOTALL):
\* leftmost opener, shortest match, then on from the end of the match
RECURSIVE RemoveMsoBlocks(_)
RemoveMsoBlocks(s) ==
    IF s = <<>> THEN <<>>
    ELSE LET ends == {j \in 2..Len(s) : s[j].k = "endif"}
         IN  IF s[1].k = "msoOpen" /\ ends # {}
             THEN RemoveMsoBlocks(SubSeq(s, (CHOOSE j \in ends : \A e \in ends : j <= e) + 1, Len(s)))
             ELSE <<s[1]>> \o RemoveMsoBlocks(Tail(s))

\* lines 359-362: delete the markers that are left
StripDanglingMarkers(s) == SelectSeq2(s, LAMBDA t : t.k \notin {"msoOpen", "endif"})

RemoveMsoConditionals(s) ==
    StripDanglingMarkers(RemoveMsoBlocks(StripNotMsoWrappers(s)))

(* Inputs: every string of at most MaxMso tokens over the four markers and *)
(* text; the text at position i is the chunk TextNames[i].                 *)

MaxMso == 5
TextNames == <<"t1", "t2", "t3", "t4", "t5", "t6", "t7", "t8">>
MsoShapes == SeqsUpTo({"msoOpen", "endif", "notMsoOpen", "notMsoClose", "text"}, MaxMso)
MsoString(shape) ==
    [i \in 1..Len(shape) |->
        IF shape[i] = "text" THEN TextTok(<<TextNames[i]>>) ELSE MarkerTok(shape[i])]

InitMso ==
    /\ \E shape \in MsoShapes : html = MsoString(shape)
    /\ start = html
    /\ pc = "mso"
    /\ soup = <<>> /\ subject = <<>> /\ first = <<>> /\ trace = <<>> /\ newsletters = <<>> /\ raising = {} /\ chunks = <<>> /\ seen_message_ids = {} /\ climbFrom = 0 /\ climbTo = 0 /\ todo = <<>> /\ processed = <<>> /\ log = <<>>

RunMsoConditionals ==
    /\ pc = "mso"
    /\ html' = RemoveMsoConditionals(html)
    /\ pc' = "done"
    /\ UNCHANGED <<newsletters, raising, chunks, seen_message_ids, climbFrom, todo, processed, log, climbTo, soup, subject, start, first, trace>>

SpecMso == InitMso /\ [][RunMsoConditionals]_vars

\* number of legacy-client-only blocks open in front of position i
RECURSIVE MsoDepth(_, _)
MsoDepth(s, i) ==
    IF i <= 1 THEN 0
    ELSE LET d == MsoDepth(s, i - 1)
         IN  CASE s[i - 1].k = "msoOpen" -> d + 1
               [] s[i - 1].k = "endif" /\ d > 0 -> d - 1
               [] OTHER -> d

\* C5: no text that was inside a legacy-client-only conditional comment
\* block is present after the conditional-comment step, also for nested
\* blocks and blocks without an end marker.
C5_MsoContentAbsent ==
    pc = "done" =>
        \A i \in 1..Len(start) :
            (start[i].k = "text" /\ MsoDepth(start, i) > 0) => start[i] \notin Range(html)

-----------------------------------------------------------------------------
(* _remove_footers (cleaner.py 667-712)                                    *)

\* _FOOTER_PATTERN.search(text): the chunks that hold a footer marker
FooterChunks == {"foot300", "foot11"}
FooterMatch(text) == \E i \in 1..Len(text) : text[i] \in FooterChunks

FooterTags == {"div", "table", "tr", "td", "p", "section", "footer"}
BoundaryTags == {"body", "html", "[document]"}

FooterMinLen == 5
FooterMaxLen == 2000

\* body = soup.find("body") or soup
BodyOrSoup(nodes) == IF Find(nodes, Root, "body") = 0 THEN Root ELSE Find(nodes, Root, "body")

\* the scan with its length test the wrong way round
FooterCandidateShortOnly(nodes, n) ==
    /\ ~Detached(nodes, n)
    /\ TextLen(GetText(nodes, n)) <= FooterMinLen
    /\ FooterMatch(GetText(nodes, n))

\* lines 676-686: does the scan collect this element
FooterCandidate(nodes, n) ==
    /\ ~Detached(nodes, n)
    /\ TextLen(GetText(nodes, n)) >= FooterMinLen
    /\ FooterMatch(GetText(nodes, n))

\* the climb without its stop at body / html / [document]
RECURSIVE FooterClimbPastBody(_, _)
FooterClimbPastBody(nodes, p) ==
    LET pp == nodes[p].parent
    IN  IF pp # NoParent
        THEN IF nodes[pp].parent = NoParent THEN p
             ELSE IF FooterMatch(GetText(nodes, pp))
                     /\ TextLen(GetText(nodes, pp)) < FooterMaxLen
                  THEN FooterClimbPastBody(nodes, pp)
                  ELSE p
        ELSE p

\* lines 695-706: climb while the parent's text matches and is short
RECURSIVE FooterClimb(_, _)
FooterClimb(nodes, p) ==
    LET pp == nodes[p].parent
    IN  IF pp # NoParent /\ nodes[pp].tag \notin BoundaryTags
        THEN IF nodes[pp].parent = NoParent THEN p
             ELSE IF FooterMatch(GetText(nodes, pp))
                     /\ TextLen(GetText(nodes, pp)) < FooterMaxLen
                  THEN FooterClimb(nodes, pp)
                  ELSE p
        ELSE p

\* lines 691-712: one iteration of the deletion loop
FooterDelete(nodes, elem) ==
    IF Detached(nodes, elem) THEN nodes
    ELSE LET target == FooterClimb(nodes, elem)
         IN  IF ~Detached(nodes, target)
                /\ TextLen(GetText(nodes, target)) < FooterMaxLen
             THEN Decompose(nodes, target)
             ELSE nodes

RemoveFooters(nodes) ==
    LET all == FindAll(nodes, BodyOrSoup(nodes), FooterTags)
        footer_elements == SelectSeq2(Reverse(all), LAMBDA e : FooterCandidate(nodes, e))
    IN  FoldSeq(FooterDelete, nodes, footer_elements)

(* Inputs of the footer pass: the parse of every markup string of at most  *)
(* MaxFooterTokens tokens over body/div/p tags, article text and footer    *)
(* text.                                                                   *)

MaxFooterTokens == 5
FooterAlphabet ==
    { OpenTag("body"), OpenTag("div"), OpenTag("p"), CloseTag("div"),
      TextTok(<<"art1800">>), TextTok(<<"art300">>), TextTok(<<"foot300">>) }

InitFooters ==
    /\ html \in SeqsUpTo(FooterAlphabet, MaxFooterTokens)
    /\ soup = Parse(html)
    /\ start = soup
    /\ pc = "footers"
    /\ subject = <<>> /\ first = <<>> /\ trace = <<>> /\ newsletters = <<>> /\ raising = {} /\ chunks = <<>> /\ seen_message_ids = {} /\ climbFrom = 0 /\ climbTo = 0 /\ todo = <<>> /\ processed = <<>> /\ log = <<>>

RunFooters ==
    /\ pc = "footers"
    /\ soup' = RemoveFooters(soup)
    /\ pc' = "done"
    /\ UNCHANGED <<newsletters, raising, chunks, seen_message_ids, climbFrom, todo, processed, log, climbTo, html, subject, start, first, trace>>

SpecFooters == InitFooters /\ [][RunFooters]_vars

\* the nodes strictly inside the body (or the document, without a body)
InBody(nodes) == Range(Descendants(nodes, BodyOrSoup(nodes)))
\* the proper ancestors of n
RECURSIVE Ancestors(_, _)
Ancestors(nodes, n) ==
    IF nodes[n].parent = NoParent THEN {}
    ELSE {nodes[n].parent} \cup Ancestors(nodes, nodes[n].parent)

\* an element the footer scan is meant to take away: a container tag inside
\* the body whose text matches a footer marker, 5 <= length < 2000
ShortFooter(nodes, n) ==
    /\ n \in InBody(nodes) /\ nodes[n].tag \in FooterTags
    /\ FooterMatch(GetText(nodes, n))
    /\ TextLen(GetText(nodes, n)) >= 5 /\ TextLen(GetText(nodes, n)) < 2000

\* C6: after the footer pass no container element of the body whose text
\* matched a footer marker with 5 <= length < 2000 at the start of the pass
\* is still attached.
C6_ShortFootersGone ==
    pc = "done" =>
        \A n \in 1..Len(start) : ShortFooter(start, n) => n \notin Attached(soup)

\* a short footer went away with an ancestor that the climb reached, while
\* other content of the document stayed
C6_Witness ==
    /\ pc = "done"
    /\ \E n \in 1..Len(start) :
          /\ ShortFooter(start, n)
          /\ n \notin Attached(soup)
          /\ \E a \in Ancestors(start, n) : a # Root /\ a \notin Attached(soup)
    /\ \E t \in Attached(soup) : soup[t].tag = "#text"

\* C7: the footer pass never deletes an element whose text was 2000
\* characters or longer when the pass started.
C7_LongElementsKept ==
    pc = "done" =>
        \A n \in Attached(start) :
            (IsTag(start, n) /\ TextLen(GetText(start, n)) >= 2000) => n \in Attached(soup)

\* text that names a footer marker ("unsubscribe")
MentionsFooter(text) == \E i \in 1..Len(text) : text[i] \in {"foot300", "foot11"}

\* a string of article text: not blank, no footer marker in it
ArticleText(nodes, t) ==
    /\ nodes[t].tag = "#text" /\ Strip(nodes[t].txt) # <<>>
    /\ ~MentionsFooter(nodes[t].txt)

\* a footer container: a container element of the body whose text matches
\* a footer marker and is shorter than 2000, with a matching element in it
FooterContainer(nodes, c) ==
    /\ c \in InBody(nodes) /\ nodes[c].tag \in FooterTags
    /\ MentionsFooter(GetText(nodes, c))
    /\ TextLen(GetText(nodes, c)) >= 5 /\ TextLen(GetText(nodes, c)) < 2000
    /\ \E e \in Range(Descendants(nodes, c)) :
          IsTag(nodes, e) /\ MentionsFooter(GetText(nodes, e))

\* article text t lies outside and before the container c
ArticleBefore(nodes, t, c) ==
    /\ ArticleText(nodes, t) /\ t \in Attached(nodes)
    /\ t \notin Range(Descendants(nodes, c)) /\ t < c

\* no element around t, other than body / html / the document, has text
\* with a footer marker in it
NoFooterWrapper(nodes, t) ==
    \A a \in Ancestors(nodes, t) :
        nodes[a].tag \in {"body", "html", "[document]"} \/ ~MentionsFooter(GetText(nodes, a))

-----------------------------------------------------------------------------
(* difflib.SequenceMatcher(None, a, b).ratio(), as deduplicate_title and   *)
(* _deduplicate_newsletters call it (no junk; autojunk needs 200 items)    *)

\* length of the common run of a[i..ahi-1] and b[j..bhi-1]
RECURSIVE RunLen(_, _, _, _, _, _)
RunLen(a, b, i, j, ahi, bhi) ==
    IF i < ahi /\ j < bhi /\ a[i] = b[j] THEN 1 + RunLen(a, b, i + 1, j + 1, ahi, bhi) ELSE 0

\* find_longest_match(alo, ahi, blo, bhi): the longest block, the earliest
\* in a and then the earliest in b among the longest
LongestMatch(a, b, alo, ahi, blo, bhi) ==
    LET cands == {<<i, j>> : i \in alo..(ahi - 1), j \in blo..(bhi - 1)}
        size(c) == RunLen(a, b, c[1], c[2], ahi, bhi)
        best == CHOOSE c \in cands :
                    \A d \in cands :
                        \/ size(c) > size(d)
                        \/ size(c) = size(d) /\ c[1] < d[1]
                        \/ size(c) = size(d) /\ c[1] = d[1] /\ c[2] <= d[2]
    IN  IF cands = {} THEN <<alo, blo, 0>> ELSE <<best[1], best[2], size(best)>>

\* get_matching_blocks: the total size of the matching blocks
RECURSIVE MatchTotal(_, _, _, _, _, _)
MatchTotal(a, b, alo, ahi, blo, bhi) ==
    LET m == LongestMatch(a, b, alo, ahi, blo, bhi)
    IN  IF m[3] = 0 THEN 0
        ELSE m[3] + MatchTotal(a, b, alo, m[1], blo, m[2])
                  + MatchTotal(a, b, m[1] + m[3], ahi, m[2] + m[3], bhi)

Matches(a, b) == MatchTotal(a, b, 1, Len(a) + 1, 1, Len(b) + 1)

\* ratio() > num/den, where ratio() = 2.0 * matches / (len(a) + len(b)),
\* and 1.0 for two empty strings
RatioAbove(a, b, num, den) ==
    IF Len(a) + Len(b) = 0 THEN num < den
    ELSE 2 * Matches(a, b) * den > num * (Len(a) + Len(b))

-----------------------------------------------------------------------------
(* deduplicate_title (cleaner.py 220-259)                                  *)

\* "; display: none !important;"
HideSuffix == <<";", " ", "display", ":", " ", "none", " ", "!important", ";">>

\* line 252: similarity > 0.6
TitleSimilar(subj, heading_text) ==
    RatioAbove(Lower(Strip(Lower(subj))), Lower(Strip(Lower(heading_text))), 6, 10)

\* line 255: heading["style"] = heading.get("style", "") + "; display: ..."
HideHeadingOverwrite(nodes, h) == [nodes EXCEPT ![h].style = HideSuffix]
HideHeading(nodes, h) == [nodes EXCEPT ![h].style = @ \o HideSuffix]

\* lines 239-252 for one tag name: the heading to hide, or 0
HeadingToHide(nodes, tag_name, subj) ==
    LET heading == Find(nodes, Root, tag_name)
    IN  IF heading # 0 /\ ~Detached(nodes, heading)
           /\ GetText(nodes, heading) # <<>>
           /\ TitleSimilar(subj, GetText(nodes, heading))
        THEN heading ELSE 0

\* line 259: nothing was hidden
TitleUnchangedReserialized(h) == Serialize(Parse(h))
TitleUnchanged(h) == h

\* The function: the string it returns and the tree it built.
DeduplicateTitle(h, subj) ==
    IF h = <<>> \/ subj = <<>> THEN [out |-> h, tree |-> <<>>]
    ELSE LET nodes == Parse(h)
             h1 == HeadingToHide(nodes, "h1", subj)
             h2 == HeadingToHide(nodes, "h2", subj)
         IN  IF h1 # 0
             THEN [out |-> Serialize(HideHeading(nodes, h1)), tree |-> HideHeading(nodes, h1)]
             ELSE IF h2 # 0
             THEN [out |-> Serialize(HideHeading(nodes, h2)), tree |-> HideHeading(nodes, h2)]
             ELSE [out |-> TitleUnchanged(h), tree |-> nodes]

(* Inputs: documents of up to two headings (h1 or h2, the first with or    *)
(* without a style and an end tag) and a closing paragraph; heading texts  *)
(* and subjects of at most MaxTitleLen characters.                         *)

MaxTitleLen == 2
TitleWords == SeqsUpTo({"a", "B"}, MaxTitleLen)
TitleSubjects == TitleWords \cup {w \o <<" ">> : w \in TitleWords}
HeadingTags == {"h1", "h2"}

FirstHeadings ==
    {<<OpenStyled(tg, st), TextTok(w)>> \o (IF closed THEN <<CloseTag(tg)>> ELSE <<>>) :
        tg \in HeadingTags, st \in {<<>>, <<"color", ":", "red">>}, w \in TitleWords,
        closed \in BOOLEAN}
SecondHeadings ==
    {<<OpenTag(tg), TextTok(w), CloseTag(tg)>> : tg \in HeadingTags, w \in TitleWords}
Paragraph == <<OpenTag("p"), TextTok(<<"art300">>), CloseTag("p")>>
TitleDocs ==
    {<<>>} \cup {f \o Paragraph : f \in FirstHeadings}
           \cup {(f \o g) \o Paragraph : f \in FirstHeadings, g \in SecondHeadings}

InitTitle ==
    /\ html \in TitleDocs
    /\ subject \in TitleSubjects
    /\ start = html
    /\ pc = "title"
    /\ soup = <<>> /\ first = <<>> /\ trace = <<>> /\ newsletters = <<>> /\ raising = {} /\ chunks = <<>> /\ seen_message_ids = {} /\ climbFrom = 0 /\ climbTo = 0 /\ todo = <<>> /\ processed = <<>> /\ log = <<>>

RunDeduplicateTitle ==
    /\ pc = "title"
    /\ html' = DeduplicateTitle(html, subject).out
    /\ soup' = DeduplicateTitle(html, subject).tree
    /\ pc' = "done"
    /\ UNCHANGED <<newsletters, raising, chunks, seen_message_ids, climbFrom, todo, processed, log, climbTo, subject, start, first, trace>>

SpecTitle == InitTitle /\ [][RunDeduplicateTitle]_vars

\* the headings of the parsed input whose text is non-empty
Headings(nodes) ==
    {n \in Attached(nodes) : nodes[n].tag \in HeadingTags /\ GetText(nodes, n) # <<>>}
\* the first h1 and the first h2 of the document
FirstOfTag(nodes) ==
    {n \in Attached(nodes) : nodes[n].tag \in HeadingTags
                             /\ n = Find(nodes, Root, nodes[n].tag)}
\* similarity of a heading of the input with the subject is above 0.6
Above(nodes, n) == GetText(nodes, n) # <<>> /\ TitleSimilar(subject, GetText(nodes, n))

\* C9: when deduplicate_title finds a heading with similarity above 0.6,
\* exactly one heading gets its previous style followed by the display-none
\* declaration, every other node is unchanged, and the output is the markup
\* of that tree (the heading and its text still in it).
C9_HeadingHiddenNotRemoved ==
    (pc = "done" /\ start # <<>> /\ subject # <<>>
       /\ \E n \in FirstOfTag(Parse(start)) : Above(Parse(start), n)) =>
        /\ \E h \in FirstOfTag(Parse(start)) :
              /\ Above(Parse(start), h)
              /\ soup = [Parse(start) EXCEPT ![h].style = Parse(start)[h].style \o HideSuffix]
              /\ h \in Attached(soup)
              /\ GetText(soup, h) = GetText(Parse(start), h)
        /\ html = Serialize(soup)
        /\ Cardinality({n \in 1..Len(soup) : soup[n] # Parse(start)[n]}) = 1

\* a styled heading was hidden and the paragraph after it is in the output
C9_Witness ==
    /\ pc = "done"
    /\ \E h \in 1..Len(soup) :
          /\ soup[h].tag = "h2"
          /\ soup[h].style = <<"color", ":", "red">> \o HideSuffix
    /\ \E i \in 1..Len(html) : html[i] = TextTok(<<"art300">>)

\* the first heading of the document, of level 1 or 2, with non-empty text
FirstHeading(nodes) ==
    LET hs == SelectSeq2(FindAll(nodes, Root, HeadingTags), LAMBDA n : GetText(nodes, n) # <<>>)
    IN  IF hs = <<>> THEN 0 ELSE hs[1]

-----------------------------------------------------------------------------
(* More of the BeautifulSoup interface                                     *)

HasChunk(text, S) == \E i \in 1..Len(text) : text[i] \in S

\* text[:n]: the chunks that lie within the first n characters
RECURSIVE Prefix(_, _)
Prefix(text, n) ==
    IF text = <<>> \/ ChunkLen(Head(text)) > n THEN <<>>
    ELSE <<Head(text)>> \o Prefix(Tail(text), n - ChunkLen(Head(text)))

\* node.get_text(strip=False)
GetTextRaw(nodes, n) ==
    FoldSeq(LAMBDA acc, m : IF nodes[m].tag = "#text" THEN acc \o nodes[m].txt ELSE acc,
            <<>>, IF nodes[n].tag = "#text" THEN <<n>> ELSE Descendants(nodes, n))

\* node.string: the text of the only child, through single-child elements;
\* [some |-> FALSE] is None
RECURSIVE ElemString(_, _)
ElemString(nodes, n) ==
    IF nodes[n].tag \in {"#text", "#comment"} THEN [some |-> TRUE, txt |-> nodes[n].txt]
    ELSE IF Len(nodes[n].kids) = 1 THEN ElemString(nodes, nodes[n].kids[1])
    ELSE [some |-> FALSE, txt |-> <<>>]

\* s with the entry x replaced by the entries of r
Splice(s, x, r) ==
    FoldSeq(LAMBDA acc, y : IF y = x THEN acc \o r ELSE Append(acc, y), <<>>, s)

\* node.extract(): detach n; its subtree stays below it
Extract(nodes, n) ==
    LET p == nodes[n].parent
    IN  [m \in 1..Len(nodes) |->
            IF m = n THEN [nodes[m] EXCEPT !.parent = NoParent]
            ELSE IF m = p THEN [nodes[m] EXCEPT !.kids = RemoveElem(@, n)]
            ELSE nodes[m]] \o <<>>

\* an unwrap that moves the children of n to the end of the parent
UnwrapToEnd(nodes, n) ==
    LET p == nodes[n].parent
        ks == nodes[n].kids
    IN  [m \in 1..Len(nodes) |->
            IF m = n THEN [nodes[m] EXCEPT !.parent = NoParent, !.kids = <<>>]
            ELSE IF m = p THEN [nodes[m] EXCEPT !.kids = RemoveElem(@, n) \o ks]
            ELSE IF m \in Range(ks) THEN [nodes[m] EXCEPT !.parent = p]
            ELSE nodes[m]] \o <<>>

\* node.unwrap(): put the children of n in its place
Unwrap(nodes, n) ==
    LET p == nodes[n].parent
        ks == nodes[n].kids
    IN  [m \in 1..Len(nodes) |->
            IF m = n THEN [nodes[m] EXCEPT !.parent = NoParent, !.kids = <<>>]
            ELSE IF m = p THEN [nodes[m] EXCEPT !.kids = Splice(@, n, ks)]
            ELSE IF m \in Range(ks) THEN [nodes[m] EXCEPT !.parent = p]
            ELSE nodes[m]] \o <<>>

\* node.replace_with(<tag>text</tag>) for a new element with one string
ReplaceWithParagraph(nodes, n, tag, text) ==
    LET p   == nodes[n].parent
        id  == Len(nodes) + 1
        cut == [m \in 1..Len(nodes) |->
                   IF m = n THEN [nodes[m] EXCEPT !.parent = NoParent]
                   ELSE IF m = p THEN [nodes[m] EXCEPT !.kids = Splice(@, n, <<id>>)]
                   ELSE nodes[m]]
        el  == [MkNode(tag, p, OpenTag(tag)) EXCEPT !.kids = <<id + 1>>]
    IN  Append(Append(cut, el), MkNode("#text", id, TextTok(text)))

\* node.find_next_siblings(): the elements after n under the same parent
NextSiblings(nodes, n) ==
    LET ks  == nodes[nodes[n].parent].kids
        pos == CHOOSE i \in 1..Len(ks) : ks[i] = n
    IN  SelectSeq2(SubSeq(ks, pos + 1, Len(ks)), LAMBDA m : IsTag(nodes, m))

\* the value position of "key : value" when key sits at i, or 0
ValuePos(style, i) ==
    LET j == SkipSpaces(style, i + 1)
    IN  IF j <= Len(style) /\ style[j] = ":" /\ SkipSpaces(style, j + 1) <= Len(style)
        THEN SkipSpaces(style, j + 1) ELSE 0

-----------------------------------------------------------------------------
(* _find_smallest_killable_parent (cleaner.py 533-553)                     *)

KillableLen == 500

\* the climb without its length test
RECURSIVE FindSmallestKillableParentAnyLength(_, _)
FindSmallestKillableParentAnyLength(nodes, target) ==
    LET pp == nodes[target].parent
    IN  IF pp # NoParent /\ nodes[pp].tag \notin BoundaryTags
        THEN IF nodes[pp].parent = NoParent THEN target
             ELSE FindSmallestKillableParentAnyLength(nodes, pp)
        ELSE target

RECURSIVE FindSmallestKillableParent(_, _)
FindSmallestKillableParent(nodes, target) ==
    LET pp == nodes[target].parent
    IN  IF pp # NoParent /\ nodes[pp].tag \notin BoundaryTags
        THEN IF nodes[pp].parent = NoParent THEN target
             ELSE IF TextLen(GetText(nodes, pp)) < KillableLen
                  THEN FindSmallestKillableParent(nodes, pp)
                  ELSE target
        ELSE target

\* target = climb(elem); if target and target.parent is not None: decompose
ClimbAndDecompose(nodes, elem) ==
    LET target == FindSmallestKillableParent(nodes, elem)
    IN  IF ~Detached(nodes, target) THEN Decompose(nodes, target) ELSE nodes

-----------------------------------------------------------------------------
(* _remove_forwarding_headers (556-603), _remove_user_signature (742-775)  *)

ForwardChunks == {"fwd"}
SignatureChunks == {"fioretti"}
BlockTags == {"div", "p", "span", "td", "tr", "table", "blockquote", "section", "pre"}

\* the loop body the two passes share: delete a short matching element, or
\* the matching short children of a long one
RemoveMarkedBlock(nodes, elem, marks, minLen, maxLen) ==
    LET text == GetText(nodes, elem)
    IN  IF Detached(nodes, elem) \/ text = <<>> \/ TextLen(text) < minLen
           \/ ~HasChunk(text, marks)
        THEN nodes
        ELSE IF TextLen(text) < maxLen THEN Decompose(nodes, elem)
        ELSE FoldSeq(LAMBDA acc, child :
                         IF Detached(acc, child) THEN acc
                         ELSE IF GetText(acc, child) # <<>>
                                 /\ HasChunk(GetText(acc, child), marks)
                                 /\ TextLen(GetText(acc, child)) < maxLen
                              THEN Decompose(acc, child)
                              ELSE acc,
                     nodes, nodes[elem].kids)

RemoveForwardingHeaders(nodes) ==
    FoldSeq(LAMBDA acc, e : RemoveMarkedBlock(acc, e, ForwardChunks, 10, 1500),
            nodes, FindAll(nodes, Root, BlockTags))

RemoveUserSignature(nodes) ==
    FoldSeq(LAMBDA acc, e : RemoveMarkedBlock(acc, e, SignatureChunks, 5, 2000),
            nodes, FindAll(nodes, Root, BlockTags))

-----------------------------------------------------------------------------
(* _remove_comments (367-370), _remove_tags (373-378),                     *)
(* _remove_html_artifact (381-402)                                         *)

RemoveComments(nodes) ==
    FoldSeq(Extract, nodes, FindAll(nodes, Root, {"#comment"}))

RemoveTags(nodes, tag_names) ==
    FoldSeq(LAMBDA acc, tag_name :
                FoldSeq(LAMBDA a, t : IF Detached(a, t) THEN a ELSE Decompose(a, t),
                        acc, FindAll(acc, Root, {tag_name})),
            nodes, tag_names)

RemoveHtmlArtifact(nodes) ==
    LET body == Find(nodes, Root, "body")
        unwrapped ==
            IF body = 0 THEN nodes
            ELSE FoldSeq(LAMBDA acc, h : IF Detached(acc, h) THEN acc ELSE Unwrap(acc, h),
                         nodes, FindAll(nodes, body, {"html"}))
    IN  FoldSeq(LAMBDA acc, t :
                    IF Lower(Strip(acc[t].txt)) = <<"html">> THEN Extract(acc, t) ELSE acc,
                unwrapped, FindAll(unwrapped, Root, {"#text", "#comment"}))

-----------------------------------------------------------------------------
(* _flatten_nrc_drop_caps (cleaner.py 778-834)                             *)

\* re.search(r"float\s*:\s*left", style, re.IGNORECASE)
StyleFloatLeft(style) ==
    \E i \in 1..Len(style) :
        style[i] = "float" /\ ValuePos(style, i) # 0 /\ style[ValuePos(style, i)] = "left"

\* re.search(r"font-size\s*:\s*(\d{2,}px|[3-9]\d*pt|xx?-large|[3-9]\d*em)", ...)
StyleBigFont(style) ==
    \E i \in 1..Len(style) :
        /\ style[i] = "font-size" /\ ValuePos(style, i) # 0
        /\ LET v == ValuePos(style, i)
               RECURSIVE DigitsEnd(_)
               DigitsEnd(k) == IF k <= Len(style) /\ style[k] \in Digits
                               THEN DigitsEnd(k + 1) ELSE k
               e == DigitsEnd(v)
           IN  \/ style[v] \in {"x-large", "xx-large"}
               \/ e - v >= 2 /\ e <= Len(style) /\ style[e] = "px"
               \/ e > v /\ style[v] \in {"3", "4", "5", "6", "7", "8", "9"}
                  /\ e <= Len(style) /\ style[e] \in {"pt", "em"}

\* re.sub(r"display\s*:\s*table\b", "display: inline", style, IGNORECASE)
RECURSIVE DisplayTableToInline(_)
DisplayTableToInline(style) ==
    IF style = <<>> THEN <<>>
    ELSE IF LowerWord(style[1]) = "display" /\ ValuePos(style, 1) # 0
            /\ style[ValuePos(style, 1)] = "table"
         THEN <<"display", ":", " ", "inline">>
              \o DisplayTableToInline(SubSeq(style, ValuePos(style, 1) + 1, Len(style)))
         ELSE <<style[1]>> \o DisplayTableToInline(Tail(style))

\* lines 787-797
FlattenDropCapSpans(nodes) ==
    FoldSeq(LAMBDA acc, span :
                IF ~Detached(acc, span) /\ StyleFloatLeft(acc[span].style)
                   /\ TextLen(GetText(acc, span)) <= 2
                THEN Unwrap(acc, span) ELSE acc,
            nodes, FindAll(nodes, Root, {"span"}))

\* lines 801-823
DropCapTable(acc, table) ==
    LET rows  == FindAll(acc, table, {"tr"})
        cells == IF Len(rows) = 1 THEN FindAll(acc, rows[1], {"td"}) ELSE <<>>
    IN  IF ~Detached(acc, table) /\ Len(rows) = 1 /\ Len(cells) = 2
           /\ TextLen(GetText(acc, cells[1])) <= 2
           /\ StyleBigFont(acc[cells[1]].style)
        THEN ReplaceWithParagraph(acc, table, "p", Strip(GetTextRaw(acc, table)))
        ELSE acc

FlattenDropCapTables(nodes) ==
    FoldSeq(DropCapTable, nodes, FindAll(nodes, Root, {"table"}))

\* lines 827-834
RewriteDisplayTable(nodes) ==
    FoldSeq(LAMBDA acc, e :
                IF Detached(acc, e) THEN acc
                ELSE [acc EXCEPT ![e].style = DisplayTableToInline(@)],
            nodes, FindAllTags(nodes, Root))

FlattenNrcDropCaps(nodes) ==
    RewriteDisplayTable(FlattenDropCapTables(FlattenDropCapSpans(nodes)))

-----------------------------------------------------------------------------
(* _remove_nrc_promo_footer (cleaner.py 887-921)                           *)

PromoChunks == {"promo"}
\* a trigger matches: "^reacties$" on the whole text, the others anywhere
PromoMatch(text) == Lower(text) = <<"reacties">> \/ HasChunk(text, PromoChunks)

\* lines 915-920: delete the following sibling elements, then the element
RemoveWithFollowingSiblings(nodes, elem) ==
    LET gone == FoldSeq(LAMBDA acc, sib : IF Detached(acc, sib) THEN acc
                                          ELSE Decompose(acc, sib),
                        nodes, NextSiblings(nodes, elem))
    IN  IF Detached(gone, elem) THEN gone ELSE Decompose(gone, elem)

\* the first element in document order that triggers, or 0
PromoTrigger(nodes) ==
    LET hits == SelectSeq2(FindAllTags(nodes, Root),
                           LAMBDA e : /\ GetText(nodes, e) # <<>>
                                      /\ PromoMatch(GetText(nodes, e))
                                      /\ TextLen(GetText(nodes, e)) < 500)
    IN  IF hits = <<>> THEN 0 ELSE hits[1]

RemoveNrcPromoFooter(nodes) ==
    IF PromoTrigger(nodes) = 0 THEN nodes
    ELSE RemoveWithFollowingSiblings(nodes, PromoTrigger(nodes))

-----------------------------------------------------------------------------
(* _remove_killlisted_elements (cleaner.py 436-530)                        *)

KillContainChunks == {"viewonline", "webontwikkeling", "welkom"}
KillExactChunks == {"share", "advertentie"}
\* _KILLLIST_PATTERN.search(text)
KillMatch(text) ==
    \/ HasChunk(text, KillContainChunks)
    \/ Len(text) = 1 /\ text[1] \in KillExactChunks

KillTags == {"div", "p", "span", "td", "a", "table", "tr", "section", "center", "li",
             "h1", "h2", "h3", "h4"}
ButtonKillTexts == {<<"share">>, <<"googleplay">>}
GhostPhraseChunks == {"welkom", "webontwikkeling"}

\* lines 471-478: delete the first short matching child, then stop
DecomposeFirstKillChild(nodes, elem) ==
    LET hits == SelectSeq2(nodes[elem].kids,
                           LAMBDA c : /\ GetText(nodes, c) # <<>>
                                      /\ KillMatch(GetText(nodes, c))
                                      /\ TextLen(GetText(nodes, c)) <= 500)
    IN  IF hits = <<>> THEN nodes ELSE Decompose(nodes, hits[1])

\* lines 448-478: the body of the first loop
KillElement(nodes, elem) ==
    LET text == GetText(nodes, elem)
    IN  IF Detached(nodes, elem) \/ text = <<>> THEN nodes
        ELSE IF TextLen(text) <= 500 /\ KillMatch(text)
                /\ ~Detached(nodes, FindSmallestKillableParent(nodes, elem))
             THEN Decompose(nodes, FindSmallestKillableParent(nodes, elem))
        ELSE IF TextLen(text) > 500 /\ KillMatch(Prefix(text, 200))
             THEN DecomposeFirstKillChild(nodes, elem)
        ELSE nodes

\* lines 481-497: the body of the button loop
KillButton(nodes, a_tag) ==
    IF Detached(nodes, a_tag) \/ Lower(GetText(nodes, a_tag)) \notin ButtonKillTexts
    THEN nodes
    ELSE LET parent == nodes[a_tag].parent
             gone   == Decompose(nodes, a_tag)
         IN  IF ~Detached(gone, parent) /\ GetText(gone, parent) = <<>>
             THEN Decompose(gone, parent) ELSE gone

\* lines 507-530: the body of the brute-force scan
KillGhost(nodes, elem) ==
    LET own == ElemString(nodes, elem)
    IN  IF Detached(nodes, elem) THEN nodes
        ELSE IF own.some /\ own.txt # <<>> /\ HasChunk(own.txt, GhostPhraseChunks)
                /\ ~Detached(nodes, FindSmallestKillableParent(nodes, elem))
             THEN Decompose(nodes, FindSmallestKillableParent(nodes, elem))
        ELSE IF TextLen(GetText(nodes, elem)) < 600
                /\ HasChunk(GetText(nodes, elem), GhostPhraseChunks)
             THEN ClimbAndDecompose(nodes, elem)
        ELSE nodes

RemoveKilllistedElements(nodes) ==
    LET pass1 == FoldSeq(KillElement, nodes, FindAll(nodes, Root, KillTags))
        pass2 == FoldSeq(KillButton, pass1, FindAll(pass1, Root, {"a"}))
    IN  FoldSeq(KillGhost, pass2, FindAllTags(pass2, Root))

-----------------------------------------------------------------------------
(* _remove_boilerplate_intros (606-628), _remove_advertisements (631-664), *)
(* _remove_empty_containers (715-727)                                      *)

BoilerplateChunks == {"boiler"}
BoilerplateTags == {"div", "p", "span", "td", "section", "tr"}

RemoveBoilerplateIntros(nodes) ==
    FoldSeq(LAMBDA acc, e :
                IF ~Detached(acc, e) /\ GetText(acc, e) # <<>>
                   /\ TextLen(GetText(acc, e)) <= 800
                   /\ HasChunk(GetText(acc, e), BoilerplateChunks)
                THEN ClimbAndDecompose(acc, e) ELSE acc,
            nodes, FindAll(nodes, Root, BoilerplateTags))

AdLabels == {<<"advertentie">>, <<"sponsored">>}
AdTags == {"div", "p", "span", "td", "h1", "h2", "h3", "h4", "h5", "h6", "section", "center"}

\* lines 648-664: the ad body (the next sibling element), then the label
RemoveAdvertisement(nodes, elem) ==
    IF Detached(nodes, elem) \/ Lower(GetText(nodes, elem)) \notin AdLabels THEN nodes
    ELSE LET sibs == NextSiblings(nodes, elem)
             body == IF sibs # <<>> /\ TextLen(GetText(nodes, sibs[1])) < 3000
                     THEN Decompose(nodes, sibs[1]) ELSE nodes
         IN  ClimbAndDecompose(body, elem)

RemoveAdvertisements(nodes) ==
    FoldSeq(RemoveAdvertisement, nodes, FindAll(nodes, Root, AdTags))

EmptyContainerTags == {"div", "td", "tr", "span"}
MediaTags == {"img", "a", "input", "button", "video", "iframe"}

\* lines 718-725: the test on one container
IsEmptyContainer(nodes, tag) ==
    /\ ~Detached(nodes, tag)
    /\ FindAll(nodes, tag, MediaTags) = <<>>
    /\ GetText(nodes, tag) = <<>>
    /\ FindAllTags(nodes, tag) = <<>>

RemoveEmptyContainers(nodes) ==
    FoldSeq(LAMBDA acc, tag : IF IsEmptyContainer(acc, tag) THEN Decompose(acc, tag) ELSE acc,
            nodes, FindAll(nodes, Root, EmptyContainerTags))

-----------------------------------------------------------------------------
(* The raw-text prefilter: _remove_ghost_text_raw (281-311) and            *)
(* _remove_ai_artifacts_raw (264-278).  Both work on the string, so on the *)
(* text between the tags and on the text of comments.                      *)

\* the string as maximal runs: adjacent strings are one, empty ones nothing
Normalise(toks) ==
    SelectSeq2(MergeText(toks), LAMBDA t : t.k # "text" \/ t.txt # <<>>)

GhostRawChunks == {"welkom"}

\* lines 291-294: a tag, text with the phrase and no tag in it, a closing tag
RECURSIVE RemoveGhostElements(_)
RemoveGhostElements(s) ==
    IF Len(s) < 3 THEN s
    ELSE IF s[1].k # "text" /\ s[2].k = "text" /\ HasChunk(s[2].txt, GhostRawChunks)
            /\ s[3].k = "close"
         THEN RemoveGhostElements(SubSeq(s, 4, Len(s)))
         ELSE <<s[1]>> \o RemoveGhostElements(Tail(s))

\* line 304: the phrase itself, with a "!" that follows it
RECURSIVE RemoveGhostPhrase(_)
RemoveGhostPhrase(text) ==
    IF text = <<>> THEN <<>>
    ELSE IF Head(text) \in GhostRawChunks
         THEN IF Len(text) > 1 /\ text[2] = "!"
              THEN RemoveGhostPhrase(SubSeq(text, 3, Len(text)))
              ELSE RemoveGhostPhrase(Tail(text))
         ELSE <<Head(text)>> \o RemoveGhostPhrase(Tail(text))

RemoveGhostTextRaw(toks) ==
    LET elems == Normalise(RemoveGhostElements(Normalise(toks)))
    IN  Normalise([i \in 1..Len(elems) |->
                      IF elems[i].k \in {"text", "comment"}
                      THEN [elems[i] EXCEPT !.txt = RemoveGhostPhrase(@)]
                      ELSE elems[i]])

\* lines 272-275: a code fence, the "html" that follows it at once, and the
\* white space after them
RECURSIVE StripFences(_)
StripFences(text) ==
    IF text = <<>> THEN <<>>
    ELSE IF Head(text) = "fencehtml" THEN StripFences(LStrip(Tail(text)))
    ELSE IF Head(text) = "fence"
         THEN IF Len(text) > 1 /\ text[2] = "html"
              THEN StripFences(LStrip(SubSeq(text, 3, Len(text))))
              ELSE StripFences(LStrip(Tail(text)))
    ELSE <<Head(text)>> \o StripFences(Tail(text))

\* line 277: re.sub(r"^\s*html\s*$", "", MULTILINE): "html" alone on a line.
\* atStart / atEnd: the text opens / closes the whole string.
StripHtmlLines(text, atStart, atEnd) ==
    LET n == Len(text)
        qOf(j) == CHOOSE q \in 1..j :
                     /\ \A k \in q..(j - 1) : IsSpace(text[k])
                     /\ (q = 1 \/ ~IsSpace(text[q - 1]))
        rOf(j) == CHOOSE r \in j..n :
                     /\ \A k \in (j + 1)..r : IsSpace(text[k])
                     /\ (r = n \/ ~IsSpace(text[r + 1]))
        leadNL(j)  == {k \in qOf(j)..(j - 1) : text[k] = "\n"}
        trailNL(j) == {k \in (j + 1)..rOf(j) : text[k] = "\n"}
        alone(j) == /\ text[j] = "html"
                    /\ (leadNL(j) # {} \/ (qOf(j) = 1 /\ atStart))
                    /\ (trailNL(j) # {} \/ (rOf(j) = n /\ atEnd))
        from(j) == IF qOf(j) = 1 /\ atStart THEN 1
                   ELSE (CHOOSE k \in leadNL(j) : \A m \in leadNL(j) : k <= m) + 1
        to(j)   == IF rOf(j) = n /\ atEnd THEN n
                   ELSE (CHOOSE k \in trailNL(j) : \A m \in trailNL(j) : k >= m) - 1
        cut == UNION {from(j)..to(j) : j \in {i \in 1..n : alone(i)}}
    IN  FoldSeq(LAMBDA acc, i : IF i \in cut THEN acc ELSE Append(acc, text[i]),
                <<>>, [i \in 1..n |-> i])

RemoveAiArtifactsRaw(toks) ==
    LET m == Normalise(toks)
        fenced == Normalise([i \in 1..Len(m) |->
                      IF m[i].k \in {"text", "comment"}
                      THEN [m[i] EXCEPT !.txt = StripFences(@)] ELSE m[i]])
    IN  Normalise([i \in 1..Len(fenced) |->
                      IF fenced[i].k = "text"
                      THEN [fenced[i] EXCEPT
                               !.txt = StripHtmlLines(@, i = 1, i = Len(fenced))]
                      ELSE IF fenced[i].k = "comment"
                      THEN [fenced[i] EXCEPT !.txt = StripHtmlLines(@, FALSE, FALSE)]
                      ELSE fenced[i]])

-----------------------------------------------------------------------------
(* clean_html (cleaner.py 145-217): the whole pipeline.  pc is the step    *)
(* clean_html executes next; trace lists the steps it has executed.        *)

\* the statements of clean_html in program order (lines 170-217)
\* the order with the forwarding and signature passes between the
\* advertisement pass and the footer pass
PassOrderForwardingLate ==
    << "ghost_text_raw", "ai_artifacts_raw", "mso_conditionals", "parse",
       "comments", "tags", "html_artifact", "tracking_pixels",
       "nrc_drop_caps", "nrc_promo_footer", "killlisted_elements", "boilerplate_intros",
       "advertisements", "forwarding_headers", "user_signature", "footers_pass",
       "empty_containers", "serialize" >>

PassOrder ==
    << "ghost_text_raw", "ai_artifacts_raw", "mso_conditionals", "parse",
       "forwarding_headers", "user_signature", "comments", "tags",
       "html_artifact", "tracking_pixels", "nrc_drop_caps", "nrc_promo_footer",
       "killlisted_elements", "boilerplate_intros", "advertisements", "footers_pass",
       "empty_containers", "serialize" >>

\* the step after `step`, or the return
After(step) ==
    LET i == CHOOSE k \in 1..Len(PassOrder) : PassOrder[k] = step
    IN  IF i = Len(PassOrder) THEN "return" ELSE PassOrder[i + 1]

NoResult == [some |-> FALSE, out |-> <<>>]

(* Inputs: every markup string of at most MaxTokens tokens over div and p  *)
(* tags, article text, a comment, a 1x1 image, an ad label and a footer    *)
(* line.                                                                   *)
MaxTokens == 3
PipelineAlphabet ==
    { OpenTag("div"), CloseTag("div"), OpenTag("p"), TextTok(<<"a">>),
      CommentTok(<<"a">>), ImgTag(<<"1">>, <<"1">>, <<>>),
      TextTok(<<"advertentie">>), TextTok(<<"foot11">>) }

Init ==
    /\ html \in SeqsUpTo(PipelineAlphabet, MaxTokens)
    /\ start = html
    /\ pc = "clean_html"
    /\ soup = <<>> /\ subject = <<>> /\ first = NoResult /\ trace = <<>> /\ newsletters = <<>> /\ raising = {} /\ chunks = <<>> /\ seen_message_ids = {} /\ climbFrom = 0 /\ climbTo = 0 /\ todo = <<>> /\ processed = <<>> /\ log = <<>>

\* lines 166-167: the empty string is returned as it is
CallCleanHtml ==
    /\ pc = "clean_html"
    /\ pc' = IF html = <<>> THEN "return" ELSE PassOrder[1]
    /\ UNCHANGED <<newsletters, raising, chunks, seen_message_ids, climbFrom, todo, processed, log, climbTo, html, soup, subject, start, first, trace>>

\* line 170
GhostTextRaw ==
    /\ pc = "ghost_text_raw"
    /\ html' = RemoveGhostTextRaw(html)
    /\ pc' = After("ghost_text_raw")
    /\ trace' = Append(trace, "ghost_text_raw")
    /\ UNCHANGED <<newsletters, raising, chunks, seen_message_ids, climbFrom, todo, processed, log, climbTo, soup, subject, start, first>>

\* line 173
AiArtifactsRaw ==
    /\ pc = "ai_artifacts_raw"
    /\ html' = RemoveAiArtifactsRaw(html)
    /\ pc' = After("ai_artifacts_raw")
    /\ trace' = Append(trace, "ai_artifacts_raw")
    /\ UNCHANGED <<newsletters, raising, chunks, seen_message_ids, climbFrom, todo, processed, log, climbTo, soup, subject, start, first>>

\* line 176
MsoConditionals ==
    /\ pc = "mso_conditionals"
    /\ html' = RemoveMsoConditionals(html)
    /\ pc' = After("mso_conditionals")
    /\ trace' = Append(trace, "mso_conditionals")
    /\ UNCHANGED <<newsletters, raising, chunks, seen_message_ids, climbFrom, todo, processed, log, climbTo, soup, subject, start, first>>

\* line 178
ParseHtml ==
    /\ pc = "parse"
    /\ soup' = Parse(html)
    /\ pc' = After("parse")
    /\ trace' = Append(trace, "parse")
    /\ UNCHANGED <<newsletters, raising, chunks, seen_message_ids, climbFrom, todo, processed, log, climbTo, html, subject, start, first>>

\* line 181
ForwardingHeaders ==
    /\ pc = "forwarding_headers"
    /\ soup' = RemoveForwardingHeaders(soup)
    /\ pc' = After("forwarding_headers")
    /\ trace' = Append(trace, "forwarding_headers")
    /\ UNCHANGED <<newsletters, raising, chunks, seen_message_ids, climbFrom, todo, processed, log, climbTo, html, subject, start, first>>

\* line 184
UserSignature ==
    /\ pc = "user_signature"
    /\ soup' = RemoveUserSignature(soup)
    /\ pc' = After("user_signature")
    /\ trace' = Append(trace, "user_signature")
    /\ UNCHANGED <<newsletters, raising, chunks, seen_message_ids, climbFrom, todo, processed, log, climbTo, html, subject, start, first>>

\* line 187
Comments ==
    /\ pc = "comments"
    /\ soup' = RemoveComments(soup)
    /\ pc' = After("comments")
    /\ trace' = Append(trace, "comments")
    /\ UNCHANGED <<newsletters, raising, chunks, seen_message_ids, climbFrom, todo, processed, log, climbTo, html, subject, start, first>>

\* line 190
ScriptTags ==
    /\ pc = "tags"
    /\ soup' = RemoveTags(soup, <<"script", "noscript">>)
    /\ pc' = After("tags")
    /\ trace' = Append(trace, "tags")
    /\ UNCHANGED <<newsletters, raising, chunks, seen_message_ids, climbFrom, todo, processed, log, climbTo, html, subject, start, first>>

\* line 193
HtmlArtifact ==
    /\ pc = "html_artifact"
    /\ soup' = RemoveHtmlArtifact(soup)
    /\ pc' = After("html_artifact")
    /\ trace' = Append(trace, "html_artifact")
    /\ UNCHANGED <<newsletters, raising, chunks, seen_message_ids, climbFrom, todo, processed, log, climbTo, html, subject, start, first>>

\* line 196
TrackingPixels ==
    /\ pc = "tracking_pixels"
    /\ soup' = RemoveTrackingPixels(soup)
    /\ pc' = After("tracking_pixels")
    /\ trace' = Append(trace, "tracking_pixels")
    /\ UNCHANGED <<newsletters, raising, chunks, seen_message_ids, climbFrom, todo, processed, log, climbTo, html, subject, start, first>>

\* line 199
NrcDropCaps ==
    /\ pc = "nrc_drop_caps"
    /\ soup' = FlattenNrcDropCaps(soup)
    /\ pc' = After("nrc_drop_caps")
    /\ trace' = Append(trace, "nrc_drop_caps")
    /\ UNCHANGED <<newsletters, raising, chunks, seen_message_ids, climbFrom, todo, processed, log, climbTo, html, subject, start, first>>

\* line 200
NrcPromoFooter ==
    /\ pc = "nrc_promo_footer"
    /\ soup' = RemoveNrcPromoFooter(soup)
    /\ pc' = After("nrc_promo_footer")
    /\ trace' = Append(trace, "nrc_promo_footer")
    /\ UNCHANGED <<newsletters, raising, chunks, seen_message_ids, climbFrom, todo, processed, log, climbTo, html, subject, start, first>>

\* line 203
KilllistedElements ==
    /\ pc = "killlisted_elements"
    /\ soup' = RemoveKilllistedElements(soup)
    /\ pc' = After("killlisted_elements")
    /\ trace' = Append(trace, "killlisted_elements")
    /\ UNCHANGED <<newsletters, raising, chunks, seen_message_ids, climbFrom, todo, processed, log, climbTo, html, subject, start, first>>

\* line 206
BoilerplateIntros ==
    /\ pc = "boilerplate_intros"
    /\ soup' = RemoveBoilerplateIntros(soup)
    /\ pc' = After("boilerplate_intros")
    /\ trace' = Append(trace, "boilerplate_intros")
    /\ UNCHANGED <<newsletters, raising, chunks, seen_message_ids, climbFrom, todo, processed, log, climbTo, html, subject, start, first>>

\* line 209
Advertisements ==
    /\ pc = "advertisements"
    /\ soup' = RemoveAdvertisements(soup)
    /\ pc' = After("advertisements")
    /\ trace' = Append(trace, "advertisements")
    /\ UNCHANGED <<newsletters, raising, chunks, seen_message_ids, climbFrom, todo, processed, log, climbTo, html, subject, start, first>>

\* line 212
Footers ==
    /\ pc = "footers_pass"
    /\ soup' = RemoveFooters(soup)
    /\ pc' = After("footers_pass")
    /\ trace' = Append(trace, "footers_pass")
    /\ UNCHANGED <<newsletters, raising, chunks, seen_message_ids, climbFrom, todo, processed, log, climbTo, html, subject, start, first>>

\* line 215
EmptyContainers ==
    /\ pc = "empty_containers"
    /\ soup' = RemoveEmptyContainers(soup)
    /\ pc' = After("empty_containers")
    /\ trace' = Append(trace, "empty_containers")
    /\ UNCHANGED <<newsletters, raising, chunks, seen_message_ids, climbFrom, todo, processed, log, climbTo, html, subject, start, first>>

\* line 217
ReturnStr ==
    /\ pc = "serialize"
    /\ html' = Serialize(soup)
    /\ pc' = After("serialize")
    /\ trace' = Append(trace, "serialize")
    /\ UNCHANGED <<newsletters, raising, chunks, seen_message_ids, climbFrom, todo, processed, log, climbTo, soup, subject, start, first>>

\* sanitize(sanitize(x)): the pipeline is run again on its own output
CallAgain ==
    /\ pc = "return" /\ ~first.some
    /\ first' = [some |-> TRUE, out |-> html]
    /\ pc' = "clean_html"
    /\ trace' = <<>>
    /\ soup' = <<>>
    /\ UNCHANGED <<newsletters, raising, chunks, seen_message_ids, climbFrom, todo, processed, log, climbTo, html, subject, start>>

Next ==
    \/ CallCleanHtml
    \/ GhostTextRaw
    \/ AiArtifactsRaw
    \/ MsoConditionals
    \/ ParseHtml
    \/ ForwardingHeaders
    \/ UserSignature
    \/ Comments
    \/ ScriptTags
    \/ HtmlArtifact
    \/ TrackingPixels
    \/ NrcDropCaps
    \/ NrcPromoFooter
    \/ KilllistedElements
    \/ BoilerplateIntros
    \/ Advertisements
    \/ Footers
    \/ EmptyContainers
    \/ ReturnStr
    \/ CallAgain

Spec == Init /\ [][Next]_vars

\* C1: clean_html is idempotent: the second run on the output of the first
\* returns that output again.
C1_Idempotent ==
    (pc = "return" /\ first.some) => html = first.out

\* C2 as stated: after parsing the passes run in the order comments,
\* script/noscript, root unwrapping, tracking pixels, drop-caps, promo,
\* kill-phrases, boilerplate, advertisements, forwarding headers, signature,
\* footers, empty containers; so whenever the forwarding or the signature
\* pass has run, the comment pass and the advertisement pass ran before it.
C2_ForwardingAfterAds ==
    \A i \in 1..Len(trace) :
        trace[i] \in {"forwarding_headers", "user_signature"} =>
            /\ \E j \in 1..(i - 1) : trace[j] = "comments"
            /\ \E j \in 1..(i - 1) : trace[j] = "advertisements"

\* C2 (amended): after the prefilter and parsing the passes run in the order
\* forwarding headers, signature, comments, script/noscript, root
\* unwrapping, tracking pixels, drop-caps, promo, kill-phrases, boilerplate,
\* advertisements, footers, empty containers.
C2_ForwardingFirst ==
    LET order == << "ghost_text_raw", "ai_artifacts_raw", "mso_conditionals", "parse",
                    "forwarding_headers", "user_signature", "comments", "tags",
                    "html_artifact", "tracking_pixels", "nrc_drop_caps",
                    "nrc_promo_footer", "killlisted_elements", "boilerplate_intros",
                    "advertisements", "footers_pass", "empty_containers", "serialize" >>
    IN  /\ Len(trace) <= Len(order)
        /\ trace = SubSeq(order, 1, Len(trace))
        /\ (pc = "return" /\ (IF first.some THEN first.out ELSE start) # <<>>)
               => Len(trace) = Len(order)

\* a run of the whole pipeline on a document in which passes had work to do
C2_Witness ==
    /\ pc = "return" /\ Len(trace) = 18
    /\ trace[5] = "forwarding_headers" /\ trace[15] = "advertisements"
    /\ html # start

-----------------------------------------------------------------------------
(* fetch_newsletters' date field and _deduplicate_newsletters              *)
(* (fetcher.py 236-264, 288-326)                                           *)

\* strings are compared as Python compares str: code point by code point,
\* a proper prefix being the smaller one
RECURSIVE StrGreater(_, _)
StrGreater(a, b) ==
    IF a = <<>> THEN FALSE
    ELSE IF b = <<>> THEN TRUE
    ELSE IF Head(a) # Head(b) THEN Head(a) > Head(b)
    ELSE StrGreater(Tail(a), Tail(b))

\* lines 236-241: parsedate_to_datetime keeps the UTC offset of the Date
\* header (a header without one is given UTC); a datetime is its local hour
\* and its offset in hours
DateTime(hour, offset) == [hour |-> hour, offset |-> offset]

\* the instant a datetime denotes, in hours UTC
UtcHour(d) == d.hour - d.offset

\* datetime.isoformat(), line 262: "2024-01-DDTHH:00:00+OO:00"; the parts
\* that are the same in every date of the model are left out, which leaves
\* the order of the strings as it is: the two digits of the local hour, the
\* sign and the two digits of the offset, each as its code point
\* (ord("0") = 48, ord("+") = 43, ord("-") = 45)
Abs(n) == IF n < 0 THEN 0 - n ELSE n

IsoFormat(d) ==
    << 48 + (d.hour \div 10), 48 + (d.hour % 10),
       IF d.offset < 0 THEN 45 ELSE 43,
       48 + (Abs(d.offset) \div 10), 48 + (Abs(d.offset) % 10) >>

\* lines 258-264: the dict appended per message; msg stands for the rest of
\* the message (sender, html_content)
Newsletter(subj, d, msg) == [subject |-> subj, date |-> IsoFormat(d), msg |-> msg]

\* lines 303, 309-312: SequenceMatcher(None, subject, existing_subject)
\* .ratio() > 0.90 on the lower-cased, stripped subjects
SubjectKey(nl) == Strip(Lower(nl.subject))

DedupSimilar(nl, existing) == RatioAbove(SubjectKey(nl), SubjectKey(existing), 9, 10)

\* lines 308-321: the index of the first accepted item the new one is
\* similar to (the loop breaks there), 0 when there is none
DedupMatchIndex(deduplicated, nl) ==
    LET hits == {i \in 1..Len(deduplicated) : DedupSimilar(nl, deduplicated[i])}
    IN  IF hits = {} THEN 0 ELSE CHOOSE i \in hits : \A j \in hits : i <= j

\* lines 302-324: one round of the outer loop
DedupStep(deduplicated, nl) ==
    LET i == DedupMatchIndex(deduplicated, nl)
    IN  IF i = 0 THEN Append(deduplicated, nl)
        ELSE IF StrGreater(nl.date, deduplicated[i].date)
             THEN [deduplicated EXCEPT ![i] = nl]
             ELSE deduplicated

\* lines 288-326
DeduplicateNewsletters(batch) ==
    IF batch = <<>> THEN batch ELSE FoldSeq(DedupStep, <<>>, batch)

(* Inputs: every batch of at most MaxBatch messages whose subjects come    *)
(* from DedupSubjects and whose Date headers come from DedupDates.         *)
MaxBatch == 3

\* "aaaaa", "aaaaab", "aaaaabb" and "Aaaaa ": each of the first three is
\* similar to the next one, the first and the third are not similar
DedupSubjects ==
    { <<"a", "a", "a", "a", "a">>,
      <<"a", "a", "a", "a", "a", "b">>,
      <<"a", "a", "a", "a", "a", "b", "b">>,
      <<"A", "a", "a", "a", "a", " ">> }

\* 09:00 and 10:00 local time, at UTC and at UTC-02:00
DedupDates == {DateTime(h, o) : h \in {9, 10}, o \in {0, -2}}

FetchedBatches ==
    LET Shapes == SeqsUpTo(DedupSubjects \X DedupDates, MaxBatch)
    IN  {[i \in 1..Len(sh) |-> Newsletter(sh[i][1], sh[i][2], i)] : sh \in Shapes}

\* the Date header a date string of the model came from
DateOf(iso) == CHOOSE d \in DedupDates : IsoFormat(d) = iso

InitDedup ==
    /\ pc = "dedup"
    /\ newsletters \in FetchedBatches
    /\ start = newsletters
    /\ html = <<>> /\ soup = <<>> /\ subject = <<>> /\ first = <<>> /\ trace = <<>>
    /\ raising = {} /\ chunks = <<>> /\ seen_message_ids = {} /\ climbFrom = 0 /\ climbTo = 0 /\ todo = <<>> /\ processed = <<>> /\ log = <<>>

RunDeduplicate ==
    /\ pc = "dedup"
    /\ newsletters' = DeduplicateNewsletters(newsletters)
    /\ pc' = "done"
    /\ UNCHANGED <<raising, chunks, seen_message_ids, climbFrom, todo, processed, log, climbTo, html, soup, subject, start, first, trace>>

SpecDedup == InitDedup /\ [][RunDeduplicate]_vars

\* the claims speak of subjects that are similar and of timestamps that are
\* later in time
SimilarSubjects(x, y) ==
    RatioAbove(Strip(Lower(x.subject)), Strip(Lower(y.subject)), 9, 10)

LaterInTime(x, y) == UtcHour(DateOf(x.date)) > UtcHour(DateOf(y.date))

\* one step of the fold as described: the new item replaces a similar accepted
\* item when it is later in time, is discarded when it is similar to an
\* accepted item and not later, and is appended when it is similar to none
DescribedStep(before, nl, after) ==
    LET hits == {i \in 1..Len(before) : SimilarSubjects(nl, before[i])}
    IN  IF hits = {} THEN after = Append(before, nl)
        ELSE \E i \in hits :
                 after = IF LaterInTime(nl, before[i])
                         THEN [before EXCEPT ![i] = nl] ELSE before

\* C11: the result of deduplication is the left-to-right fold in which every
\* item similar (> 0.90) to an accepted item replaces that item in place when it
\* is strictly later in time and is discarded otherwise, and every other item
\* is appended at the end.
C11_DedupIsDescribedFold ==
    pc = "done" =>
        /\ newsletters = DeduplicateNewsletters(start)
        /\ \A k \in 1..Len(start) :
               DescribedStep(DeduplicateNewsletters(SubSeq(start, 1, k - 1)), start[k],
                             DeduplicateNewsletters(SubSeq(start, 1, k)))

\* C12: of two items with similar subjects the one that remains is the one
\* whose timestamp is later in time, whatever the UTC offsets of the two.
C12_LaterInTimeRemains ==
    (pc = "done" /\ Len(start) = 2 /\ SimilarSubjects(start[1], start[2])) =>
        /\ Len(newsletters) = 1
        /\ LaterInTime(start[1], start[2]) => newsletters[1] = start[1]
        /\ LaterInTime(start[2], start[1]) => newsletters[1] = start[2]

\* C13: no two items of the result of deduplication have similar subjects.
C13_NoSimilarPairRemains ==
    pc = "done" =>
        \A i, j \in 1..Len(newsletters) :
            i # j => ~SimilarSubjects(newsletters[i], newsletters[j])

\* the same fold with "later" read as the order of the date strings, and the
\* first similar accepted item as the one that is matched
DedupFoldOnDateStrings ==
    pc = "done" =>
        \A k \in 1..Len(start) :
            LET before == DeduplicateNewsletters(SubSeq(start, 1, k - 1))
                after == DeduplicateNewsletters(SubSeq(start, 1, k))
                hits == {i \in 1..Len(before) : SimilarSubjects(start[k], before[i])}
            IN  IF hits = {} THEN after = Append(before, start[k])
                ELSE LET i == CHOOSE i \in hits : \A j \in hits : i <= j
                     IN  after = IF StrGreater(start[k].date, before[i].date)
                                 THEN [before EXCEPT ![i] = start[k]] ELSE before

-----------------------------------------------------------------------------
(* truncate_html_content (cleaner.py 837-884)                              *)
(* The texts of this section are made of one-word chunks and blanks.       *)

\* len(text.split()) for one string: the number of maximal runs of chunks
\* that are not white space
WordsOf(txt) ==
    Cardinality({i \in 1..Len(txt) : ~IsSpace(txt[i]) /\ (i = 1 \/ IsSpace(txt[i - 1]))})

\* lines 851-852, 868: len(soup.get_text(separator=" ", strip=True).split());
\* the strings are joined by a blank, so the words add up
WordCount(nodes) ==
    FoldSeq(LAMBDA acc, m : IF nodes[m].tag = "#text" THEN acc + WordsOf(nodes[m].txt) ELSE acc,
            0, Descendants(nodes, Root))

\* lines 876-881: the note
NoteStyle == <<"color:#888; font-style:italic; margin-top:20px; border-top:1px solid #ddd; padding-top:8px; font-size:11px;">>
NoteText ==
    <<"arrow", " ", "Artikel", " ", "ingekort.", " ", "Lees", " ", "het", " ", "volledige",
      " ", "artikel", " ", "via", " ", "de", " ", "originele", " ", "bron.">>

\* lines 876-882: (soup.find("body") or soup).append(note)
AppendNote(nodes) ==
    LET b  == BodyOrSoup(nodes)
        id == Len(nodes) + 1
        el == [MkNode("p", b, OpenStyled("p", NoteStyle)) EXCEPT !.kids = <<id + 1>>]
    IN  Append(AddChild(nodes, b, el), MkNode("#text", id, TextTok(NoteText)))

\* lines 865, 872: hasattr(el, "get_text") and hasattr(last, "decompose") for
\* a string or comment child depend on the installed BeautifulSoup: neither,
\* get_text alone, or both
StringCapabilities ==
    { [get_text |-> FALSE, decompose |-> FALSE],
      [get_text |-> TRUE,  decompose |-> FALSE],
      [get_text |-> TRUE,  decompose |-> TRUE] }

\* lines 860-865: blocks = [el for el in body.children if hasattr(el, "get_text")]
TruncateBlocks(nodes, lib) ==
    SelectSeq2(nodes[BodyOrSoup(nodes)].kids, LAMBDA k : IsTag(nodes, k) \/ lib.get_text)

\* lines 867-873: the while loop
RECURSIVE TruncateLoop(_, _, _, _)
TruncateLoop(nodes, blocks, max_words, lib) ==
    IF blocks = <<>> THEN nodes
    ELSE IF WordCount(nodes) <= max_words THEN nodes
    ELSE LET last == blocks[Len(blocks)]
             rest == SubSeq(blocks, 1, Len(blocks) - 1)
         IN  IF ~Detached(nodes, last) /\ (IsTag(nodes, last) \/ lib.decompose)
             THEN TruncateLoop(Decompose(nodes, last), rest, max_words, lib)
             ELSE TruncateLoop(nodes, rest, max_words, lib)

\* lines 850-884; the first definition re-serialises a document under budget
TruncateReserialisesUnderBudget(h, max_words, lib) ==
    LET parsed == Parse(h)
    IN  IF WordCount(parsed) <= max_words THEN Serialize(parsed)
        ELSE Serialize(AppendNote(TruncateLoop(parsed, TruncateBlocks(parsed, lib), max_words, lib)))
TruncateHtmlContent(h, max_words, lib) ==
    LET parsed == Parse(h)
    IN  IF WordCount(parsed) <= max_words THEN h
        ELSE Serialize(AppendNote(TruncateLoop(parsed, TruncateBlocks(parsed, lib), max_words, lib)))

\* lines 850-882: the tree that is serialised on line 884, or the parsed input
\* when the function returns on line 855
TruncatedSoup(h, max_words, lib) ==
    LET parsed == Parse(h)
    IN  IF WordCount(parsed) <= max_words THEN parsed
        ELSE AppendNote(TruncateLoop(parsed, TruncateBlocks(parsed, lib), max_words, lib))

(* Inputs: every string of at most MaxTruncTokens tokens over              *)
(* TruncateAlphabet, with every budget up to MaxWords.                     *)
MaxTruncTokens == 4
MaxWords == 2

TruncateAlphabet ==
    { OpenTag("body"), OpenTag("title"), CloseTag("title"), OpenTag("p"), CloseTag("p"),
      OpenTag("span"), TextTok(<<"a">>), TextTok(<<"a", " ", "a">>) }

InitTruncate ==
    /\ pc = "truncate"
    /\ html \in SeqsUpTo(TruncateAlphabet, MaxTruncTokens)
    /\ \E max_words \in 0..MaxWords : start = [html |-> html, max_words |-> max_words]
    /\ soup = <<>> /\ subject = <<>> /\ first = <<>> /\ trace = <<>> /\ newsletters = <<>> /\ raising = {} /\ chunks = <<>> /\ seen_message_ids = {} /\ climbFrom = 0 /\ climbTo = 0 /\ todo = <<>> /\ processed = <<>> /\ log = <<>>

RunTruncate ==
    /\ pc = "truncate"
    /\ \E lib \in StringCapabilities :
           /\ html' = TruncateHtmlContent(html, start.max_words, lib)
           /\ soup' = TruncatedSoup(html, start.max_words, lib)
    /\ pc' = "done"
    /\ UNCHANGED <<newsletters, raising, chunks, seen_message_ids, climbFrom, todo, processed, log, climbTo, subject, start, first, trace>>

SpecTruncate == InitTruncate /\ [][RunTruncate]_vars

\* the visible word count of a string
VisibleWords(h) == WordCount(Parse(h))

\* C14: the visible word count of the output of truncation is at most
\* max_words plus the word count of the notice, wherever the words sit.
C14_WordBudgetKept ==
    pc = "done" => VisibleWords(html) <= start.max_words + WordsOf(NoteText)

\* C15: an input whose word count is at most max_words is returned unchanged:
\* nothing deleted, nothing re-serialised, no notice.
C15_UnderBudgetUnchanged ==
    (pc = "done" /\ VisibleWords(start.html) <= start.max_words) => html = start.html

\* an input under budget that parsing and serialising would have changed
C15_Witness ==
    /\ pc = "done"
    /\ VisibleWords(start.html) <= start.max_words
    /\ Serialize(Parse(start.html)) # start.html
    /\ start.html # <<>>
    /\ html = start.html

-----------------------------------------------------------------------------
(* The passes under failing library calls (cleaner.py 445-478, 533-553,    *)
(* 667-712, 778-834).  Reading an attribute of a node of `raising` raises, *)
(* and so does extracting the text of a node that has a node of `raising`  *)
(* in its subtree.  A pass ends with its tree and with whether an          *)
(* exception left it.                                                      *)

\* node.get("style", "") raises
AttrRaises(bad, n) == n \in bad

\* node.get_text(strip=True) raises
TextRaises(nodes, bad, n) == \E m \in {n} \cup Range(Descendants(nodes, n)) : m \in bad

Outcome(nodes, raised) == [nodes |-> nodes, raised |-> raised]

\* lines 539-552: the try/except around target.parent.get_text breaks the loop
RECURSIVE ClimbWithFaults(_, _, _)
ClimbWithFaults(nodes, bad, target) ==
    LET pp == nodes[target].parent
    IN  IF pp # NoParent /\ nodes[pp].tag \notin BoundaryTags
        THEN IF nodes[pp].parent = NoParent THEN target
             ELSE IF TextRaises(nodes, bad, pp) THEN target
             ELSE IF TextLen(GetText(nodes, pp)) < KillableLen
                  THEN ClimbWithFaults(nodes, bad, pp)
                  ELSE target
        ELSE target

\* lines 470-478: the children loop has no try/except; each child's text is
\* read in turn until one is deleted
KillFirstChildWithFaults(nodes, bad, elem) ==
    FoldSeq(LAMBDA acc, c :
                IF acc.raised \/ acc.stop \/ Detached(acc.nodes, c) THEN acc
                ELSE IF TextRaises(acc.nodes, bad, c) THEN [acc EXCEPT !.raised = TRUE]
                ELSE IF /\ GetText(acc.nodes, c) # <<>>
                        /\ KillMatch(GetText(acc.nodes, c))
                        /\ TextLen(GetText(acc.nodes, c)) <= 500
                     THEN [acc EXCEPT !.nodes = Decompose(acc.nodes, c), !.stop = TRUE]
                ELSE acc,
            [nodes |-> nodes, raised |-> FALSE, stop |-> FALSE], nodes[elem].kids)

\* lines 448-478: the body of the first loop of the kill-list pass
KillElementWithFaults(bad, acc, elem) ==
    LET nodes == acc.nodes
        text  == GetText(nodes, elem)
    IN  IF acc.raised \/ Detached(nodes, elem) THEN acc
        ELSE IF TextRaises(nodes, bad, elem) \/ text = <<>> THEN acc
        ELSE IF TextLen(text) <= 500 /\ KillMatch(text)
                /\ ~Detached(nodes, ClimbWithFaults(nodes, bad, elem))
             THEN Outcome(Decompose(nodes, ClimbWithFaults(nodes, bad, elem)), FALSE)
        ELSE IF TextLen(text) > 500 /\ KillMatch(Prefix(text, 200))
             THEN LET r == KillFirstChildWithFaults(nodes, bad, elem)
                  IN  Outcome(r.nodes, r.raised)
        ELSE acc

\* lines 445-478
KillPassWithFaults(nodes, bad) ==
    FoldSeq(LAMBDA acc, elem : KillElementWithFaults(bad, acc, elem),
            Outcome(nodes, FALSE), FindAll(nodes, Root, KillTags))

\* lines 676-686: a failing get_text skips the element
FooterCandidateWithFaults(nodes, bad, n) ==
    /\ ~Detached(nodes, n)
    /\ ~TextRaises(nodes, bad, n)
    /\ TextLen(GetText(nodes, n)) >= FooterMinLen
    /\ FooterMatch(GetText(nodes, n))

\* lines 695-706: a failing get_text of the parent breaks the climb
RECURSIVE FooterClimbWithFaults(_, _, _)
FooterClimbWithFaults(nodes, bad, p) ==
    LET pp == nodes[p].parent
    IN  IF pp # NoParent /\ nodes[pp].tag \notin BoundaryTags
        THEN IF nodes[pp].parent = NoParent THEN p
             ELSE IF TextRaises(nodes, bad, pp) THEN p
             ELSE IF FooterMatch(GetText(nodes, pp))
                     /\ TextLen(GetText(nodes, pp)) < FooterMaxLen
                  THEN FooterClimbWithFaults(nodes, bad, pp)
                  ELSE p
        ELSE p

\* lines 691-712: the final length test sits in a try/except that passes
FooterDeleteWithFaults(bad, nodes, elem) ==
    IF Detached(nodes, elem) THEN nodes
    ELSE LET target == FooterClimbWithFaults(nodes, bad, elem)
         IN  IF /\ ~Detached(nodes, target)
                /\ ~TextRaises(nodes, bad, target)
                /\ TextLen(GetText(nodes, target)) < FooterMaxLen
             THEN Decompose(nodes, target)
             ELSE nodes

\* lines 667-712
FootersWithFaults(nodes, bad) ==
    LET all == FindAll(nodes, BodyOrSoup(nodes), FooterTags)
        footer_elements ==
            SelectSeq2(Reverse(all), LAMBDA e : FooterCandidateWithFaults(nodes, bad, e))
    IN  Outcome(FoldSeq(LAMBDA acc, elem : FooterDeleteWithFaults(bad, acc, elem),
                        nodes, footer_elements), FALSE)

\* lines 787-797: nothing is guarded
DropCapSpansWithFaults(start0, bad) ==
    FoldSeq(LAMBDA acc, span :
                IF acc.raised \/ Detached(acc.nodes, span) THEN acc
                ELSE IF AttrRaises(bad, span) THEN [acc EXCEPT !.raised = TRUE]
                ELSE IF ~StyleFloatLeft(acc.nodes[span].style) THEN acc
                ELSE IF TextRaises(acc.nodes, bad, span) THEN [acc EXCEPT !.raised = TRUE]
                ELSE IF TextLen(GetText(acc.nodes, span)) <= 2
                     THEN [acc EXCEPT !.nodes = Unwrap(acc.nodes, span)]
                ELSE acc,
            start0, FindAll(start0.nodes, Root, {"span"}))

\* lines 801-823: nothing is guarded
DropCapTablesWithFaults(start0, bad) ==
    FoldSeq(LAMBDA acc, table :
                LET rows  == FindAll(acc.nodes, table, {"tr"})
                    cells == IF Len(rows) = 1 THEN FindAll(acc.nodes, rows[1], {"td"}) ELSE <<>>
                IN  IF acc.raised \/ Detached(acc.nodes, table) THEN acc
                    ELSE IF Len(rows) # 1 \/ Len(cells) # 2 THEN acc
                    ELSE IF TextRaises(acc.nodes, bad, cells[1]) \/ AttrRaises(bad, cells[1])
                         THEN [acc EXCEPT !.raised = TRUE]
                    ELSE IF ~(/\ TextLen(GetText(acc.nodes, cells[1])) <= 2
                              /\ StyleBigFont(acc.nodes[cells[1]].style))
                         THEN acc
                    ELSE IF TextRaises(acc.nodes, bad, table) THEN [acc EXCEPT !.raised = TRUE]
                    ELSE [acc EXCEPT !.nodes =
                              ReplaceWithParagraph(acc.nodes, table, "p",
                                                   Strip(GetTextRaw(acc.nodes, table)))],
            start0, FindAll(start0.nodes, Root, {"table"}))

\* lines 827-834: nothing is guarded
DisplayTableWithFaults(start0, bad) ==
    FoldSeq(LAMBDA acc, e :
                IF acc.raised \/ Detached(acc.nodes, e) THEN acc
                ELSE IF AttrRaises(bad, e) THEN [acc EXCEPT !.raised = TRUE]
                ELSE [acc EXCEPT !.nodes = [acc.nodes EXCEPT ![e].style = DisplayTableToInline(@)]],
            start0, FindAllTags(start0.nodes, Root))

\* lines 778-834
DropCapsWithFaults(nodes, bad) ==
    DisplayTableWithFaults(
        DropCapTablesWithFaults(DropCapSpansWithFaults(Outcome(nodes, FALSE), bad), bad), bad)

(* Inputs: the parse of every string of at most MaxFaultTokens tokens over *)
(* FaultAlphabet, with at most one node that raises.                       *)
MaxFaultTokens == 5

FaultAlphabet ==
    { OpenTag("div"), CloseTag("div"), OpenStyled("span", <<"float", ":", "left">>),
      TextTok(<<"foot11">>), TextTok(<<"viewonline">>), TextTok(<<"art1800">>) }

InitFaults ==
    /\ pc = "pass"
    /\ html \in SeqsUpTo(FaultAlphabet, MaxFaultTokens)
    /\ soup = Parse(html)
    /\ start = soup
    /\ raising \in {{}} \cup {{n} : n \in 2..Len(soup)}
    /\ chunks = <<>> /\ seen_message_ids = {}
    /\ climbFrom = 0 /\ climbTo = 0 /\ todo = <<>> /\ processed = <<>> /\ log = <<>>
    /\ subject = <<>> /\ first = <<>> /\ trace = <<>> /\ newsletters = <<>>

\* a pass returns, or an exception leaves it
EndOfPass(outcome, name) ==
    /\ soup' = outcome.nodes
    /\ pc' = IF outcome.raised THEN "raised" ELSE "done"
    /\ trace' = <<name>>
    /\ UNCHANGED <<html, subject, start, first, newsletters, raising, chunks, seen_message_ids, climbFrom, todo, processed, log, climbTo>>

RunKillPassWithFaults ==
    pc = "pass" /\ EndOfPass(KillPassWithFaults(soup, raising), "killlisted_elements")

RunFootersWithFaults ==
    pc = "pass" /\ EndOfPass(FootersWithFaults(soup, raising), "footers")

RunDropCapsWithFaults ==
    pc = "pass" /\ EndOfPass(DropCapsWithFaults(soup, raising), "nrc_drop_caps")

NextFaults == RunKillPassWithFaults \/ RunFootersWithFaults \/ RunDropCapsWithFaults

SpecFaults == InitFaults /\ [][NextFaults]_vars

\* without a failing node the three passes are the passes of the pipeline
FaultFreeAgrees ==
    (pc = "done" /\ raising = {} /\ chunks = <<>> /\ seen_message_ids = {}) =>
        soup = CASE trace = <<"footers">> -> RemoveFooters(start)
                 [] trace = <<"nrc_drop_caps">> -> FlattenNrcDropCaps(start)
                 [] OTHER -> FoldSeq(KillElement, start, FindAll(start, Root, KillTags))

\* C16: in a pruning pass a node whose text extraction or attribute access
\* fails is left where it is, with every ancestor of it, and no error leaves
\* the pass: the pass returns.
C16_FailuresStayInsidePass ==
    /\ pc # "raised"
    /\ pc = "done" =>
           \A n \in raising :
               \A a \in {n} \cup Ancestors(start, n) : soup[a].parent = start[a].parent

-----------------------------------------------------------------------------
(* The per-newsletter loop of main (main.py 118-151)                       *)

\* len(name) of the tag names of this section
TagNameLen(tag) ==
    CASE tag = "p" -> 1 [] tag \in {"div", "img"} -> 3 [] tag \in {"body", "html", "span"} -> 4
      [] OTHER -> 2

\* the length of attr="value" with its leading blank, nothing for an absent
\* attribute
AttrLen(nameLen, value) == IF value = <<>> THEN 0 ELSE nameLen + 4 + TextLen(value)

\* len() of one piece of markup: <tag attrs>, <tag attrs/>, </tag>, text,
\* <!--comment-->
TokLen(t) ==
    CASE t.k = "open" ->
             2 + TagNameLen(t.tag) + AttrLen(5, t.width) + AttrLen(6, t.height)
               + AttrLen(5, t.style) + (IF t.tag \in VoidTags THEN 1 ELSE 0)
      [] t.k = "close" -> 3 + TagNameLen(t.tag)
      [] t.k = "comment" -> 7 + TextLen(t.txt)
      [] OTHER -> TextLen(t.txt)

\* len(s) of a markup string
MarkupLen(toks) == FoldSeq(LAMBDA acc, t : acc + TokLen(t), 0, toks)

\* str.strip() of a markup string: white space goes from a string at either
\* end (str(soup) has no two strings in a row)
StripMarkup(toks) ==
    LET n == Len(toks)
        left == IF n > 0 /\ toks[1].k = "text"
                THEN [toks EXCEPT ![1].txt = LStrip(@)] ELSE toks
    IN  IF n > 0 /\ left[n].k = "text"
        THEN [left EXCEPT ![n].txt = Reverse(LStrip(Reverse(@)))] ELSE left

\* line 142: the floor of the validation
MinContentLen == 50

\* line 142: not nl["html_content"] or len(nl["html_content"].strip()) < 50
NearlyEmpty(h) == h = <<>> \/ MarkupLen(StripMarkup(h)) < MinContentLen

(* Inputs: one newsletter whose html_content is any string of at most      *)
(* MaxMainTokens tokens over MainAlphabet.  The texts hold none of the     *)
(* marker words of detect_language, which then answers "nl" (translator.py *)
(* 55-56, 77-78), so that nothing is translated.                           *)
MaxMainTokens == 3

MainAlphabet ==
    { OpenTag("html"), OpenTag("body"), OpenTag("p"), CloseTag("p"),
      OpenStyled("p", <<"cssrule">>), OpenTag("div"),
      TextTok(<<"a">>), TextTok(<<" ">>), TextTok(<<"art300">>),
      TextTok(<<"promo">>), TextTok(<<"welkom">>) }

InitMain ==
    /\ html \in SeqsUpTo(MainAlphabet, MaxMainTokens)
    /\ start = html
    /\ subject = <<"a">>
    /\ pc = "clean_html"
    /\ soup = <<>> /\ first = NoResult /\ trace = <<>> /\ newsletters = <<>> /\ raising = {} /\ chunks = <<>> /\ seen_message_ids = {} /\ climbFrom = 0 /\ climbTo = 0 /\ todo = <<>> /\ processed = <<>> /\ log = <<>>

\* line 130
MainDeduplicateTitle ==
    /\ pc = "return" /\ first = NoResult
    /\ html' = DeduplicateTitle(html, subject).out
    /\ pc' = "detect_language"
    /\ UNCHANGED <<soup, subject, start, first, trace, newsletters, raising, chunks, seen_message_ids, climbFrom, todo, processed, log, climbTo>>

\* lines 133-140: lang is "nl", translate_html is not called
MainDetectLanguage ==
    /\ pc = "detect_language"
    /\ pc' = "validate"
    /\ UNCHANGED <<html, soup, subject, start, first, trace, newsletters, raising, chunks, seen_message_ids, climbFrom, todo, processed, log, climbTo>>

\* lines 142-146
MainValidate ==
    /\ pc = "validate"
    /\ IF NearlyEmpty(html)
       THEN pc' = "skipped" /\ UNCHANGED newsletters
       ELSE /\ pc' = "processed"
            /\ newsletters' = Append(newsletters, [subject |-> subject, html_content |-> html])
    /\ UNCHANGED <<html, soup, subject, start, first, trace, raising, chunks, seen_message_ids, climbFrom, todo, processed, log, climbTo>>

NextMain ==
    \/ CallCleanHtml
    \/ GhostTextRaw
    \/ AiArtifactsRaw
    \/ MsoConditionals
    \/ ParseHtml
    \/ ForwardingHeaders
    \/ UserSignature
    \/ Comments
    \/ ScriptTags
    \/ HtmlArtifact
    \/ TrackingPixels
    \/ NrcDropCaps
    \/ NrcPromoFooter
    \/ KilllistedElements
    \/ BoilerplateIntros
    \/ Advertisements
    \/ Footers
    \/ EmptyContainers
    \/ ReturnStr
    \/ MainDeduplicateTitle
    \/ MainDetectLanguage
    \/ MainValidate

SpecMain == InitMain /\ [][NextMain]_vars

\* the visible text of the document as it is when it is validated
VisibleTextLen == IF html = <<>> THEN 0 ELSE TextLen(Strip(GetTextRaw(Parse(html), Root)))

\* C17: the loop drops a document exactly when its trimmed visible text after
\* sanitization is shorter than 50 characters, whatever the amount of markup.
C17_DroppedIffLittleVisibleText ==
    /\ pc = "skipped" => VisibleTextLen < 50
    /\ pc = "processed" => VisibleTextLen >= 50

\* the two halves of the same statement
DroppedOnlyWithLittleText == pc = "skipped" => VisibleTextLen < 50
DroppedIffLittleMarkup ==
    /\ pc = "skipped" => MarkupLen(StripMarkup(html)) < 50
    /\ pc = "processed" => MarkupLen(StripMarkup(html)) >= 50

-----------------------------------------------------------------------------
(* _find_smallest_killable_parent on its own (cleaner.py 533-553)          *)

(* Inputs: the parse of every string of at most MaxClimbTokens tokens over *)
(* ClimbAlphabet and every element of it, which is what the passes hand to *)
(* the climber: an element found in the tree that still has a parent.      *)
MaxClimbTokens == 5

ClimbAlphabet ==
    { OpenTag("body"), OpenTag("div"), CloseTag("div"), OpenTag("p"),
      TextTok(<<"viewonline">>), TextTok(<<"art1800">>) }

InitClimb ==
    /\ pc = "climb"
    /\ html \in SeqsUpTo(ClimbAlphabet, MaxClimbTokens)
    /\ soup = Parse(html)
    /\ start = soup
    /\ climbFrom \in {n \in 2..Len(soup) : IsTag(soup, n)}
    /\ climbTo = 0 /\ todo = <<>> /\ processed = <<>> /\ log = <<>>
    /\ subject = <<>> /\ first = <<>> /\ trace = <<>> /\ newsletters = <<>> /\ raising = {} /\ chunks = <<>> /\ seen_message_ids = {}

RunClimb ==
    /\ pc = "climb"
    /\ climbTo' = FindSmallestKillableParent(soup, climbFrom)
    /\ pc' = "done"
    /\ UNCHANGED <<html, soup, subject, start, first, trace, newsletters, raising, chunks, seen_message_ids, climbFrom, todo, processed, log>>

SpecClimb == InitClimb /\ [][RunClimb]_vars

\* the nodes on the way up from n to its ancestor a: n's ancestors up to a
ClimbedTo(nodes, n, a) ==
    {x \in Ancestors(nodes, n) : x = a \/ a \in Ancestors(nodes, x)}

BoundaryNode(nodes, n) ==
    /\ n \in Attached(nodes)
    /\ \/ n = Root
       \/ nodes[n].tag = "html" /\ nodes[n].parent = Root
       \/ /\ nodes[n].tag = "body"
          /\ \A a \in Ancestors(nodes, n) : a = Root \/ (nodes[a].tag = "html" /\ nodes[a].parent = Root)

\* C19: no pass deletes body, html or the document root: such a node of the
\* tree is still in the tree after every step of the pipeline.
C19_BoundaryNodesNeverDeleted ==
    [][\A n \in 1..Len(soup) :
           BoundaryNode(soup, n) => (n <= Len(soup') /\ n \in Attached(soup'))]_vars

-----------------------------------------------------------------------------
(* Sub-pass (a) of _remove_killlisted_elements on its own                 *)
(* (cleaner.py 446-478)                                                    *)

MaxKillTokens == 6

KillAlphabet ==
    { OpenTag("div"), OpenTag("p"), CloseTag("p"),
      TextTok(<<"viewonline", "art300">>), TextTok(<<"art300">>) }

InitKill ==
    /\ pc = "kill_pass_a"
    /\ html \in SeqsUpTo(KillAlphabet, MaxKillTokens)
    /\ soup = Parse(html)
    /\ start = soup
    /\ subject = <<>> /\ first = <<>> /\ trace = <<>> /\ newsletters = <<>> /\ raising = {} /\ chunks = <<>> /\ seen_message_ids = {}
    /\ climbFrom = 0 /\ climbTo = 0 /\ todo = <<>> /\ processed = <<>> /\ log = <<>>

\* lines 446-478: the loop over list(soup.find_all([...]))
RunKillPassA ==
    /\ pc = "kill_pass_a"
    /\ soup' = FoldSeq(KillElement, soup, FindAll(soup, Root, KillTags))
    /\ pc' = "done"
    /\ UNCHANGED <<html, subject, start, first, trace, newsletters, raising, chunks, seen_message_ids, climbFrom, todo, processed, log, climbTo>>

SpecKill == InitKill /\ [][RunKillPassA]_vars

\* a node the pass deleted as a whole: it is gone and its parent at the start
\* of the pass is not, so it was the target of one of the deletions
DeletedAsAWhole(n) ==
    /\ n # Root
    /\ soup[n].dec
    /\ ~soup[start[n].parent].dec

\* C20: every node that kill-phrase sub-pass (a) deleted as a whole had text of
\* at most 500 characters when the pass started
C20_DeletedBlocksWereShort ==
    pc = "done" =>
        \A n \in 1..Len(start) :
            DeletedAsAWhole(n) => TextLen(GetText(start, n)) <= KillableLen

-----------------------------------------------------------------------------
(* _remove_forwarding_headers (cleaner.py 556-603) and                     *)
(* _remove_user_signature (cleaner.py 742-775) on their own                *)

MaxMarkTokens == 7

MarkAlphabet ==
    { OpenTag("p"), CloseTag("p"), TextTok(<<"fwd">>), TextTok(<<"fioretti">>),
      TextTok(<<"art1800", "art300">>) }

InitMarked ==
    /\ pc \in {"forwarding_headers", "user_signature"}
    /\ html \in SeqsUpTo(MarkAlphabet, MaxMarkTokens)
    /\ soup = Parse(html)
    /\ start = soup
    /\ subject = <<>> /\ first = <<>> /\ trace = <<>> /\ newsletters = <<>> /\ raising = {} /\ chunks = <<>> /\ seen_message_ids = {}
    /\ climbFrom = 0 /\ climbTo = 0 /\ todo = <<>> /\ processed = <<>> /\ log = <<>>

RunForwardingHeaders ==
    /\ pc = "forwarding_headers"
    /\ soup' = RemoveForwardingHeaders(soup)
    /\ pc' = "forwarded"
    /\ UNCHANGED <<html, subject, start, first, trace, newsletters, raising, chunks, seen_message_ids, climbFrom, todo, processed, log, climbTo>>

RunUserSignature ==
    /\ pc = "user_signature"
    /\ soup' = RemoveUserSignature(soup)
    /\ pc' = "signed"
    /\ UNCHANGED <<html, subject, start, first, trace, newsletters, raising, chunks, seen_message_ids, climbFrom, todo, processed, log, climbTo>>

NextMarked == RunForwardingHeaders \/ RunUserSignature

SpecMarked == InitMarked /\ [][NextMarked]_vars

\* the elements of the pass's snapshot that match and are at or above the limit
LongMarked(marks, limit) ==
    {e \in 1..Len(start) :
        /\ start[e].tag \in BlockTags
        /\ HasChunk(GetText(start, e), marks)
        /\ TextLen(GetText(start, e)) >= limit}

DeletedChildren(e) ==
    {i \in 1..Len(start[e].kids) : soup[start[e].kids[i]].dec}

KeptButForOneChild(marks, limit) ==
    \A e \in LongMarked(marks, limit) :
        /\ ~soup[e].dec
        /\ Cardinality(DeletedChildren(e)) <= 1

\* C21: in the forwarding pass and in the signature pass a matching element at
\* or above the size limit is kept and loses at most one direct child
C21_LongBlockLosesAtMostOneChild ==
    /\ pc = "forwarded" => KeptButForOneChild(ForwardChunks, 1500)
    /\ pc = "signed" => KeptButForOneChild(SignatureChunks, 2000)

\* the part of C21 that holds: the long element itself is never deleted
LongBlockItselfKept ==
    /\ pc = "forwarded" => \A e \in LongMarked(ForwardChunks, 1500) : ~soup[e].dec
    /\ pc = "signed" => \A e \in LongMarked(SignatureChunks, 2000) : ~soup[e].dec

-----------------------------------------------------------------------------
(* _remove_advertisements (cleaner.py 631-664) on its own                  *)

MaxAdPieces == 5

\* the pieces a document is put together from: a label paragraph, an ad body
\* of 2700 characters, a block of 3600 characters, loose text, a div
AdPieces ==
    { <<OpenTag("p"), TextTok(<<"advertentie">>), CloseTag("p")>>,
      <<OpenTag("p"), TextTok(<<"art1800", "art300", "art300", "art300">>), CloseTag("p")>>,
      <<OpenTag("p"), TextTok(<<"art1800", "art1800">>), CloseTag("p")>>,
      <<TextTok(<<"art300">>)>>,
      <<OpenTag("div")>>,
      <<CloseTag("div")>> }

RECURSIVE Flatten(_)
Flatten(pieces) == IF pieces = <<>> THEN <<>> ELSE Head(pieces) \o Flatten(Tail(pieces))

InitAds ==
    /\ pc = "advertisements"
    /\ html \in {Flatten(ps) : ps \in SeqsUpTo(AdPieces, MaxAdPieces)}
    /\ soup = Parse(html)
    /\ start = soup
    /\ subject = <<>> /\ first = <<>> /\ trace = <<>> /\ newsletters = <<>> /\ raising = {} /\ chunks = <<>> /\ seen_message_ids = {}
    /\ climbFrom = 0 /\ climbTo = 0 /\ todo = <<>> /\ processed = <<>> /\ log = <<>>

RunAdvertisements ==
    /\ pc = "advertisements"
    /\ soup' = RemoveAdvertisements(soup)
    /\ pc' = "done"
    /\ UNCHANGED <<html, subject, start, first, trace, newsletters, raising, chunks, seen_message_ids, climbFrom, todo, processed, log, climbTo>>

SpecAds == InitAds /\ [][RunAdvertisements]_vars

\* the elements of the snapshot whose whole trimmed text is an ad label
AdTriggersAtStart ==
    SelectSeq2(FindAll(start, Root, AdTags),
               LAMBDA e : Lower(GetText(start, e)) \in {<<"advertentie">>, <<"sponsored">>})

\* the first trigger is reached while the tree is still as it was at the start
FirstAdTrigger == AdTriggersAtStart[1]

AdBodyOfFirst == NextSiblings(start, FirstAdTrigger)

\* no trigger, no change
AdsOnlyOnTrigger ==
    (pc = "done" /\ AdTriggersAtStart = <<>>) => soup = start

\* the trigger goes, and with it a next sibling of less than 3000 characters
AdsDeleteShortBodyAndTrigger ==
    (pc = "done" /\ AdTriggersAtStart # <<>>) =>
        /\ soup[FirstAdTrigger].dec
        /\ ((AdBodyOfFirst # <<>> /\ TextLen(GetText(start, AdBodyOfFirst[1])) < 3000)
               => soup[AdBodyOfFirst[1]].dec)

\* a next sibling of 3000 characters or more is still there after the pass
AdsKeepLongBody ==
    (/\ pc = "done" /\ AdTriggersAtStart # <<>>
     /\ AdBodyOfFirst # <<>> /\ TextLen(GetText(start, AdBodyOfFirst[1])) >= 3000)
        => ~soup[AdBodyOfFirst[1]].dec

\* C22: the advertisement pass changes the tree only on an element whose whole
\* text is an ad label; at the trigger it deletes the next sibling element
\* exactly when that sibling is shorter than 3000 characters, deletes the
\* trigger, and never deletes a next sibling of 3000 characters or more
C22_AdPassAsDescribed ==
    AdsOnlyOnTrigger /\ AdsDeleteShortBodyAndTrigger /\ AdsKeepLongBody

-----------------------------------------------------------------------------
(* _remove_nrc_promo_footer (cleaner.py 887-921) on its own                *)

MaxPromoTokens == 5

PromoAlphabet ==
    { OpenTag("div"), CloseTag("div"), OpenTag("p"), CloseTag("p"),
      TextTok(<<"promo">>), TextTok(<<"art300">>) }

InitPromo ==
    /\ pc = "nrc_promo_footer"
    /\ html \in SeqsUpTo(PromoAlphabet, MaxPromoTokens)
    /\ soup = Parse(html)
    /\ start = soup
    /\ subject = <<>> /\ first = <<>> /\ trace = <<>> /\ newsletters = <<>> /\ raising = {} /\ chunks = <<>> /\ seen_message_ids = {}
    /\ climbFrom = 0 /\ climbTo = 0 /\ todo = <<>> /\ processed = <<>> /\ log = <<>>

RunNrcPromoFooter ==
    /\ pc = "nrc_promo_footer"
    /\ soup' = RemoveNrcPromoFooter(soup)
    /\ pc' = "done"
    /\ UNCHANGED <<html, subject, start, first, trace, newsletters, raising, chunks, seen_message_ids, climbFrom, todo, processed, log, climbTo>>

SpecPromo == InitPromo /\ [][RunNrcPromoFooter]_vars

\* the elements, in document order, whose text matches a trigger and is
\* shorter than 500 characters
PromoSections ==
    SelectSeq2(FindAllTags(start, Root),
               LAMBDA e : /\ PromoMatch(GetText(start, e))
                          /\ TextLen(GetText(start, e)) < 500)

\* every node that follows n under its parent, text and comments included
FollowingSiblings(nodes, n) ==
    LET ks  == nodes[nodes[n].parent].kids
        pos == CHOOSE i \in 1..Len(ks) : ks[i] = n
    IN  {ks[i] : i \in (pos + 1)..Len(ks)}

\* the first section and its following siblings, each with all it contains
PromoSectionNodes ==
    LET top == {PromoSections[1]} \cup FollowingSiblings(start, PromoSections[1])
    IN  top \cup UNION {Range(Descendants(start, n)) : n \in top}

DeletedNodes == {n \in 1..Len(soup) : soup[n].dec}

\* no match, no change
PromoOnlyOnTrigger ==
    (pc = "done" /\ PromoSections = <<>>) => soup = start

\* nothing outside the section is deleted or changed
PromoNothingElse ==
    (pc = "done" /\ PromoSections # <<>>) =>
        /\ DeletedNodes \subseteq PromoSectionNodes
        /\ soup[PromoSections[1]].dec
        /\ \A n \in 1..Len(start) :
               (n \notin PromoSectionNodes /\ n # start[PromoSections[1]].parent)
                   => soup[n] = start[n]

\* C23: the promo pass deletes the first matching element shorter than 500
\* characters together with all its following siblings and nothing else, and
\* leaves the tree unchanged when no element matches
C23_PromoDeletesSectionOnly ==
    /\ PromoOnlyOnTrigger
    /\ PromoNothingElse
    /\ (pc = "done" /\ PromoSections # <<>>) => DeletedNodes = PromoSectionNodes

-----------------------------------------------------------------------------
(* _remove_empty_containers (cleaner.py 715-727) on its own                *)

MaxEmptyTokens == 4

EmptyAlphabet ==
    { OpenTag("div"), CloseTag("div"), OpenTag("span"), OpenTag("p"), OpenTag("a"),
      TextTok(<<"a">>), TextTok(<<" ">>) }

InitEmpty ==
    /\ pc = "empty_containers"
    /\ html \in SeqsUpTo(EmptyAlphabet, MaxEmptyTokens)
    /\ soup = Parse(html)
    /\ start = soup
    /\ subject = <<>> /\ first = <<>> /\ trace = <<>> /\ newsletters = <<>> /\ raising = {} /\ chunks = <<>> /\ seen_message_ids = {}
    /\ climbFrom = 0 /\ climbTo = 0 /\ todo = <<>> /\ processed = <<>> /\ log = <<>>

RunEmptyContainers ==
    /\ pc = "empty_containers"
    /\ soup' = RemoveEmptyContainers(soup)
    /\ pc' = "done"
    /\ UNCHANGED <<html, subject, start, first, trace, newsletters, raising, chunks, seen_message_ids, climbFrom, todo, processed, log, climbTo>>

SpecEmpty == InitEmpty /\ [][RunEmptyContainers]_vars

\* an attached div, tr, td or span without text and without an image, link,
\* input, button, video or iframe below it
EmptyContainersLeft ==
    {n \in Attached(soup) :
        /\ soup[n].tag \in {"div", "tr", "td", "span"}
        /\ GetText(soup, n) = <<>>
        /\ \A d \in Range(Descendants(soup, n)) :
               soup[d].tag \notin {"img", "a", "input", "button", "video", "iframe"}}

\* C24: after the empty-container pass no attached div, tr, td or span is left
\* that has no text and no media or interactive descendant
C24_NoEmptyContainerLeft ==
    pc = "done" => EmptyContainersLeft = {}

\* what the pass does achieve: the containers left over all held an element
\* when the pass started
EmptyLeafContainersGone ==
    pc = "done" =>
        \A n \in EmptyContainersLeft : \E d \in Range(Descendants(start, n)) : IsTag(start, d)

-----------------------------------------------------------------------------
(* The table loop of _flatten_nrc_drop_caps (cleaner.py 801-823), one      *)
(* table of the snapshot at a time                                         *)

MaxTableTokens == 6

TableAlphabet ==
    { OpenTag("table"), OpenTag("tr"), OpenTag("td"),
      OpenStyled("td", <<"font-size", ":", "x-large">>), TextTok(<<"E">>) }

InitTables ==
    /\ pc = "drop_cap_tables"
    /\ html \in SeqsUpTo(TableAlphabet, MaxTableTokens)
    /\ soup = Parse(html)
    /\ start = soup
    /\ todo = FindAll(soup, Root, {"table"})
    /\ subject = <<>> /\ first = <<>> /\ trace = <<>> /\ newsletters = <<>> /\ raising = {} /\ chunks = <<>> /\ seen_message_ids = {}
    /\ climbFrom = 0 /\ climbTo = 0 /\ processed = <<>> /\ log = <<>>

\* lines 801-823: one turn of the loop
VisitTable ==
    /\ pc = "drop_cap_tables" /\ todo # <<>>
    /\ soup' = DropCapTable(soup, Head(todo))
    /\ todo' = Tail(todo)
    /\ UNCHANGED <<pc, html, subject, start, first, trace, newsletters, raising, chunks, seen_message_ids, climbFrom, climbTo, processed, log>>

\* the snapshot is used up
LeaveTableLoop ==
    /\ pc = "drop_cap_tables" /\ todo = <<>>
    /\ pc' = "done"
    /\ UNCHANGED <<html, soup, subject, start, first, trace, newsletters, raising, chunks, seen_message_ids, climbFrom, todo, processed, log, climbTo>>

NextTables == VisitTable \/ LeaveTableLoop

SpecTables == InitTables /\ [][NextTables]_vars

\* the nodes that are no longer part of the document
OutsideDocument(nodes) == {n \in 1..Len(nodes) : n \notin Attached(nodes)}

\* C25: a pass does nothing to a node that is already detached from the
\* document, be it removed itself or part of a removed subtree
C25_DetachedNodesLeftAlone ==
    [][\A n \in OutsideDocument(soup) : soup'[n] = soup[n]]_vars

-----------------------------------------------------------------------------
(* clean_html (cleaner.py 166-217), one run, on documents with drop-cap    *)
(* spans, drop-cap tables and kill-list text                               *)

MaxOrderTokens == 4

OrderAlphabet ==
    { OpenStyled("span", <<"float", ":", "left">>), CloseTag("span"), TextTok(<<"E">>),
      OpenTag("table"), OpenTag("tr"), OpenStyled("td", <<"font-size", ":", "x-large">>),
      OpenTag("td"), TextTok(<<"viewonline">>) }

InitOrder ==
    /\ html \in SeqsUpTo(OrderAlphabet, MaxOrderTokens)
    /\ start = html
    /\ pc = "clean_html"
    /\ soup = <<>> /\ subject = <<>> /\ first = NoResult /\ trace = <<>> /\ newsletters = <<>>
    /\ raising = {} /\ chunks = <<>> /\ seen_message_ids = {} /\ climbFrom = 0 /\ climbTo = 0 /\ todo = <<>> /\ processed = <<>> /\ log = <<>>

NextOrder ==
    \/ CallCleanHtml
    \/ GhostTextRaw
    \/ AiArtifactsRaw
    \/ MsoConditionals
    \/ ParseHtml
    \/ ForwardingHeaders
    \/ UserSignature
    \/ Comments
    \/ ScriptTags
    \/ HtmlArtifact
    \/ TrackingPixels
    \/ NrcDropCaps
    \/ NrcPromoFooter
    \/ KilllistedElements
    \/ BoilerplateIntros
    \/ Advertisements
    \/ Footers
    \/ EmptyContainers
    \/ ReturnStr

SpecOrder == InitOrder /\ [][NextOrder]_vars

\* the attached nodes in document order
DocOrder(nodes) == <<Root>> \o Descendants(nodes, Root)

PosIn(s, x) == CHOOSE i \in 1..Len(s) : s[i] = x

\* every attached node but the root hangs under exactly one attached parent,
\* the one its parent field names, and is reached once from the root
WellFormedTree(nodes) ==
    LET d == DocOrder(nodes)
    IN  /\ \A i, j \in 1..Len(d) : d[i] = d[j] => i = j
        /\ \A i \in 2..Len(d) :
               /\ nodes[d[i]].parent \in Range(d)
               /\ d[i] \in Range(nodes[nodes[d[i]].parent].kids)
               /\ \A q \in Range(d) : d[i] \in Range(nodes[q].kids) => q = nodes[d[i]].parent

OrderKept(before, after) ==
    LET b == DocOrder(before)
        a == DocOrder(after)
    IN  \A x, y \in Range(b) \cap Range(a) :
            PosIn(b, x) < PosIn(b, y) => PosIn(a, x) < PosIn(a, y)

\* C26: after every pass the document is a well-formed tree, and the nodes
\* attached before and after the pass keep their relative document order
C26_TreeAndOrderKept ==
    [][(soup # <<>> /\ soup' # <<>>) => (WellFormedTree(soup') /\ OrderKept(soup, soup'))]_vars

\* a drop-cap span was unwrapped in front of a sibling: its letter is still
\* attached and something follows it under the same parent
C26_Witness ==
    /\ pc = "nrc_promo_footer"
    /\ WellFormedTree(soup)
    /\ \E n \in 2..Len(soup) :
           /\ soup[n].tag = "span" /\ n \notin Attached(soup) /\ ~soup[n].dec
           /\ Parse(start)[n].kids # <<>>
           /\ LET k  == Parse(start)[n].kids[1]
                  ks == soup[soup[k].parent].kids
              IN  k \in Attached(soup) /\ PosIn(ks, k) < Len(ks)

-----------------------------------------------------------------------------
(* truncate_html_content over budget (cleaner.py 857-884): what is deleted *)

TruncInput == Parse(start.html)
TruncBody  == BodyOrSoup(TruncInput)

OverBudget == pc = "done" /\ WordCount(TruncInput) > start.max_words

\* the block-level elements, as listed on lines 861-862
BlockLevelTags ==
    {"p", "div", "section", "article", "blockquote", "ul", "ol",
     "h1", "h2", "h3", "h4", "h5", "h6", "table", "figure"}

\* the input nodes that were deleted as a whole
TruncDeleted ==
    {n \in 2..Len(TruncInput) : soup[n].dec /\ ~soup[TruncInput[n].parent].dec}

\* the top-level children that are left, without the note
TruncSurvivors == SelectSeq2(soup[TruncBody].kids, LAMBDA k : k <= Len(TruncInput))

\* only top-level children of the body are deleted
TruncDeletesTopLevelOnly ==
    OverBudget => \A n \in TruncDeleted : TruncInput[n].parent = TruncBody

\* one note, appended as the last child of the body
TruncNoteAppendedLast ==
    OverBudget =>
        LET ks == soup[TruncBody].kids
        IN  /\ ks # <<>> /\ ks[Len(ks)] = Len(TruncInput) + 1
            /\ soup[ks[Len(ks)]].tag = "p"
            /\ GetTextRaw(soup, ks[Len(ks)]) = NoteText
            /\ Len(soup) = Len(TruncInput) + 2

\* the top-level children that are left are a prefix of the original ones
TruncSurvivorsArePrefix ==
    OverBudget =>
        TruncSurvivors = SubSeq(TruncInput[TruncBody].kids, 1, Len(TruncSurvivors))

\* C27: over budget, truncation deletes only top-level block-level children of
\* the body, from the last towards the first; what is left of the top level is
\* a prefix of the original children, followed by exactly one note
C27_TruncateDeletesLastBlocks ==
    /\ TruncDeletesTopLevelOnly
    /\ OverBudget => \A n \in TruncDeleted : TruncInput[n].tag \in BlockLevelTags
    /\ TruncSurvivorsArePrefix
    /\ TruncNoteAppendedLast

-----------------------------------------------------------------------------
(* main.py 118-154: the loop over a batch of newsletters.  The newsletters *)
(* whose position is in raising raise somewhere inside the try block.      *)

MaxBatchMain == 2

\* nothing, a paragraph that is nearly empty, an article
BatchContents ==
    { <<>>,
      <<OpenTag("p"), TextTok(<<"a">>), CloseTag("p")>>,
      <<OpenTag("p"), TextTok(<<"art300">>), CloseTag("p")>> }

InitBatch ==
    /\ newsletters \in SeqsUpTo({[subject |-> <<"a">>, html_content |-> h] : h \in BatchContents},
                                MaxBatchMain)
    /\ raising \in SUBSET (1..Len(newsletters))
    /\ chunks = <<>> /\ seen_message_ids = {}
    /\ start = newsletters
    /\ todo = [i \in 1..Len(newsletters) |-> i]
    /\ processed = <<>> /\ log = <<>>
    /\ pc = "for"
    /\ html = <<>> /\ soup = <<>> /\ subject = <<>> /\ first = NoResult /\ trace = <<>>
    /\ climbFrom = 0 /\ climbTo = 0

\* lines 119-124: the next newsletter enters the try block
BatchNext ==
    /\ pc = "for" /\ todo # <<>>
    /\ subject' = newsletters[Head(todo)].subject
    /\ html' = newsletters[Head(todo)].html_content
    /\ soup' = <<>> /\ trace' = <<>>
    /\ pc' = "clean_html"
    /\ UNCHANGED <<start, first, newsletters, raising, chunks, seen_message_ids, climbFrom, climbTo, todo, processed, log>>

\* lines 136-140: lang == "en"; translate_html returns what the service sent,
\* or its argument when the call failed (translator.py 142-144)
BatchTranslate ==
    /\ pc = "detect_language"
    /\ html' \in {html, <<>>, <<OpenTag("p"), TextTok(<<"art300">>), CloseTag("p")>>}
    /\ pc' = "validate"
    /\ UNCHANGED <<soup, subject, start, first, trace, newsletters, raising, chunks, seen_message_ids, climbFrom, climbTo,
                   todo, processed, log>>

\* lines 142-146: the newsletter is dropped with a warning, or appended
BatchValidate ==
    /\ pc = "validate" /\ Head(todo) \notin raising
    /\ IF NearlyEmpty(html)
       THEN /\ log' = Append(log, [level |-> "warning", id |-> Head(todo)])
            /\ UNCHANGED processed
       ELSE /\ processed' = Append(processed, [id |-> Head(todo), subject |-> subject,
                                               html_content |-> html])
            /\ UNCHANGED log
    /\ todo' = Tail(todo)
    /\ pc' = "for"
    /\ UNCHANGED <<html, soup, subject, start, first, trace, newsletters, raising, chunks, seen_message_ids, climbFrom, climbTo>>

InsideTry == (Range(PassOrder) \cup {"clean_html", "return", "detect_language", "validate"})

\* an except clause that gives up on the rest of the batch
BatchExceptBreaks ==
    /\ pc \in InsideTry /\ Head(todo) \in raising
    /\ log' = Append(log, [level |-> "error", id |-> Head(todo)])
    /\ todo' = <<>>
    /\ pc' = "for"
    /\ UNCHANGED <<html, soup, subject, start, first, trace, newsletters, raising, chunks, seen_message_ids, climbFrom, climbTo,
                   processed>>

\* lines 148-151: except Exception: log the error, continue
BatchExcept ==
    /\ pc \in InsideTry /\ Head(todo) \in raising
    /\ log' = Append(log, [level |-> "error", id |-> Head(todo)])
    /\ todo' = Tail(todo)
    /\ pc' = "for"
    /\ UNCHANGED <<html, soup, subject, start, first, trace, newsletters, raising, chunks, seen_message_ids, climbFrom, climbTo,
                   processed>>

\* line 154: newsletters = processed
BatchDone ==
    /\ pc = "for" /\ todo = <<>>
    /\ newsletters' = processed
    /\ pc' = "done"
    /\ UNCHANGED <<html, soup, subject, start, first, trace, raising, chunks, seen_message_ids, climbFrom, climbTo, todo,
                   processed, log>>

NextBatch ==
    \/ BatchNext
    \/ CallCleanHtml
    \/ GhostTextRaw
    \/ AiArtifactsRaw
    \/ MsoConditionals
    \/ ParseHtml
    \/ ForwardingHeaders
    \/ UserSignature
    \/ Comments
    \/ ScriptTags
    \/ HtmlArtifact
    \/ TrackingPixels
    \/ NrcDropCaps
    \/ NrcPromoFooter
    \/ KilllistedElements
    \/ BoilerplateIntros
    \/ Advertisements
    \/ Footers
    \/ EmptyContainers
    \/ ReturnStr
    \/ MainDeduplicateTitle
    \/ MainDetectLanguage
    \/ BatchTranslate
    \/ BatchValidate
    \/ BatchExcept
    \/ BatchDone

SpecBatch == InitBatch /\ [][NextBatch]_vars

ProcessedIds == [k \in 1..Len(processed) |-> processed[k].id]
Logged(level) == {log[k].id : k \in {j \in 1..Len(log) : log[j].level = level}}

\* C28: an error in one newsletter skips that newsletter only; the list that
\* results holds, in the original order, exactly the newsletters that raised
\* no error and were not dropped as nearly empty
C28_OnlyTheFailingNewsletterSkipped ==
    pc = "done" =>
        /\ newsletters = processed
        /\ \A k \in 1..(Len(processed) - 1) : ProcessedIds[k] < ProcessedIds[k + 1]
        /\ Logged("error") = raising
        /\ Range(ProcessedIds) = (1..Len(start)) \ (raising \cup Logged("warning"))
        /\ Range(ProcessedIds) \cap Logged("warning") = {}
        /\ \A k \in 1..Len(processed) : ~NearlyEmpty(processed[k].html_content)

\* the first newsletter of the batch raised and the second came through
C28_Witness ==
    /\ pc = "done" /\ Len(start) = 2
    /\ raising = {1}
    /\ ProcessedIds = <<2>>

-----------------------------------------------------------------------------
(* translator.py: _split_html                                              *)

\* translator.py lines 152-171; a chunk is a markup string, str(element) is
\* the element's markup and len() counts characters
SplitHtml(h, max_size) ==
    LET nodes == Parse(h)
        body  == BodyOrSoup(nodes)
        loop  == FoldSeq(LAMBDA acc, element :
                     LET element_str == Markup(nodes, element)
                     IN  IF MarkupLen(acc.current_chunk) + MarkupLen(element_str) > max_size
                            /\ acc.current_chunk # <<>>
                         THEN [chunks |-> Append(acc.chunks, acc.current_chunk),
                               current_chunk |-> element_str]
                         ELSE [acc EXCEPT !.current_chunk = @ \o element_str],
                     [chunks |-> <<>>, current_chunk |-> <<>>], nodes[body].kids)
        all   == IF loop.current_chunk # <<>>
                 THEN Append(loop.chunks, loop.current_chunk) ELSE loop.chunks
    IN  IF all # <<>> THEN all ELSE <<h>>

\* the inputs: documents of up to MaxSplitTokens tokens with paragraphs of one
\* and of 300 characters, and the chunk sizes in SplitSizes
MaxSplitTokens == 4

SplitAlphabet ==
    { OpenTag("body"), OpenTag("p"), CloseTag("p"), TextTok(<<"a">>), TextTok(<<"art300">>) }

SplitSizes == {8, 310, 12000}

InitSplit ==
    /\ pc = "_split_html"
    /\ html \in SeqsUpTo(SplitAlphabet, MaxSplitTokens)
    /\ start \in {[max_size |-> m] : m \in SplitSizes}
    /\ soup = <<>> /\ subject = <<>> /\ first = <<>> /\ trace = <<>> /\ newsletters = <<>>
    /\ raising = {} /\ chunks = <<>> /\ seen_message_ids = {}
    /\ climbFrom = 0 /\ climbTo = 0 /\ todo = <<>> /\ processed = <<>> /\ log = <<>>

RunSplitHtml ==
    /\ pc = "_split_html"
    /\ soup' = Parse(html)
    /\ chunks' = SplitHtml(html, start.max_size)
    /\ pc' = "split"
    /\ UNCHANGED <<html, subject, start, first, trace, newsletters, raising, seen_message_ids,
                   climbFrom, climbTo, todo, processed, log>>

SpecSplit == InitSplit /\ [][RunSplitHtml]_vars

SplitChildren == soup[BodyOrSoup(soup)].kids

\* the chunks are the children's markup cut at child boundaries: some
\* monotone assignment of the children onto the chunks rebuilds every chunk
ChunksPartitionChildren ==
    \E of \in [1..Len(SplitChildren) -> 1..Len(chunks)] :
        /\ \A i, j \in 1..Len(SplitChildren) : i <= j => of[i] <= of[j]
        /\ \A c \in 1..Len(chunks) :
               chunks[c] = FoldSeq(LAMBDA acc, i :
                                       IF of[i] = c THEN acc \o Markup(soup, SplitChildren[i])
                                       ELSE acc,
                                   <<>>, [i \in 1..Len(SplitChildren) |-> i])
               /\ \E i \in 1..Len(SplitChildren) : of[i] = c

\* the half of C29 the code keeps: with at least one child, every child's
\* markup lies, in order, in exactly one chunk
SplitKeepsChildrenInOrder ==
    (pc = "split" /\ SplitChildren # <<>>) => ChunksPartitionChildren

\* C29: _split_html returns chunks of at most max_size characters each, also
\* for a document whose single top-level element is longer than max_size, and
\* the chunks are the body's top-level children in order, each child in
\* exactly one chunk
C29_ChunksWithinMaxSize ==
    pc = "split" =>
        /\ \A c \in 1..Len(chunks) : MarkupLen(chunks[c]) <= start.max_size
        /\ SplitChildren # <<>> => ChunksPartitionChildren

-----------------------------------------------------------------------------
(* fetcher.py: extract_real_sender and the message loop of fetch_newsletters *)

\* fetcher.py lines 8-19: the names the module binds at import time
ModuleNames ==
    {"imaplib", "email", "logging", "os", "datetime", "timedelta", "timezone",
     "SequenceMatcher", "decode_header", "Optional", "logger"}

\* A body text is a sequence of lines. A line records whether the forwarding
\* marker of lines 106-111 matches in it, which of the three patterns of
\* lines 85-89 matches in it (0: none), the name the pattern's group captures
\* and the line's length with its line break.
Line(marker, pattern, name, len) == [marker |-> marker, pattern |-> pattern, name |-> name, len |-> len]

Returned(value) == [raised |-> "", value |-> value]
Raised(exc)     == [raised |-> exc, value |-> <<>>]

\* line 100: get_text() of the HTML body
HtmlText(html_content) == html_content.text

\* lines 127-129: the first line from the marker on in which the pattern
\* matches within after_marker[:500], 0 if there is none
PatternSearch(text, from, pattern) ==
    LET upto(i) == FoldSeq(LAMBDA acc, k : acc + text[k].len, 0, [k \in 1..(i - from + 1) |-> from + k - 1])
        hits == {i \in from..Len(text) : text[i].pattern = pattern /\ upto(i) <= 500}
    IN  IF hits = {} THEN 0 ELSE CHOOSE i \in hits : \A j \in hits : i <= j

\* lines 104-135 for one text: the name extracted, <<>> if none passes
SenderIn(text) ==
    LET markers == {i \in 1..Len(text) : text[i].marker}
        from    == CHOOSE i \in markers : \A j \in markers : i <= j
        ok(p)   == LET m == PatternSearch(text, from, p)
                   IN  /\ m # 0
                       /\ text[m].name # <<>>
                       /\ TextLen(text[m].name) < 100
                       /\ "@" \notin Range(text[m].name)
        good    == {p \in 1..3 : ok(p)}
    IN  IF markers = {} \/ good = {} THEN <<>>
        ELSE text[PatternSearch(text, from, CHOOSE p \in good : \A q \in good : p <= q)].name

\* lines 69-137; line 85 reads the global name re, which no line of the
\* module binds: the lookup raises NameError
ExtractRealSender(plain_content, html_content, envelope_sender) ==
    IF "re" \notin ModuleNames THEN Raised("NameError")
    ELSE LET search_texts ==
                 (IF plain_content # <<>> THEN <<plain_content>> ELSE <<>>)
                 \o (IF html_content # <<>> THEN <<HtmlText(html_content)>> ELSE <<>>)
             found == SelectSeq([k \in 1..Len(search_texts) |-> SenderIn(search_texts[k])],
                                LAMBDA x : x # <<>>)
         IN  IF found # <<>> THEN Returned(Head(found)) ELSE Returned(envelope_sender)

\* line 254: the plain text wrapped in basic HTML
WrapPlain(plain_content) == [markup |-> "pre", text |-> plain_content]

\* the inputs: up to MaxFetch messages; bodies are plain prose, a forwarded
\* message with a sender's name, and one with a bare address
MaxFetch == 2

FwdMarker  == Line(TRUE, 0, <<>>, 40)
FromName   == Line(FALSE, 2, <<"Trouw">>, 30)
FromAddr   == Line(FALSE, 2, <<"nieuws", "@", "trouw.nl">>, 25)
Prose      == Line(FALSE, 0, <<>>, 80)

PlainBodies == { <<>>, <<Prose>>, <<Prose, FwdMarker, FromName, Prose>>, <<FwdMarker, FromAddr>> }
HtmlBodies  == { <<>>, [markup |-> "html", text |-> <<FwdMarker, FromName>>] }

Messages ==
    [ status : {"OK", "NO"}, message_id : {"", "m1"}, date : {"in", "out", "bad"},
      subject : {<<"s">>}, envelope_sender : {<<"Dennis">>},
      html_content : HtmlBodies, plain_content : PlainBodies ]

InitFetch ==
    /\ pc = "for msg_id"
    /\ start \in SeqsUpTo(Messages, MaxFetch)
    /\ todo = [k \in 1..Len(start) |-> k]
    /\ newsletters = <<>> /\ log = <<>> /\ seen_message_ids = {}
    /\ html = <<>> /\ soup = <<>> /\ subject = <<>> /\ first = <<>> /\ trace = <<>>
    /\ raising = {} /\ chunks = <<>> /\ climbFrom = 0 /\ climbTo = 0 /\ processed = <<>>

\* lines 219-270: one turn of the loop over the fetched messages
FetchMessage ==
    /\ pc = "for msg_id"
    /\ todo # <<>>
    /\ LET msg_id == Head(todo)
           msg    == start[msg_id]
           seen   == msg.message_id # "" /\ msg.message_id \in seen_message_ids
           html_content == IF msg.html_content = <<>> /\ msg.plain_content # <<>>
                           THEN WrapPlain(msg.plain_content) ELSE msg.html_content
           sender == ExtractRealSender(msg.plain_content, html_content, msg.envelope_sender)
           error  == Append(log, [level |-> "error", id |-> msg_id])
       IN  /\ seen_message_ids' =
                  IF msg.status = "OK" /\ msg.message_id # ""
                  THEN seen_message_ids \cup {msg.message_id} ELSE seen_message_ids
           /\ IF msg.status # "OK" \/ seen
              THEN UNCHANGED <<newsletters, log>>
              ELSE IF msg.date = "bad"
              THEN log' = error /\ UNCHANGED newsletters
              ELSE IF msg.date = "out"
              THEN UNCHANGED <<newsletters, log>>
              ELSE IF msg.html_content = <<>> /\ msg.plain_content = <<>>
              THEN /\ log' = Append(log, [level |-> "warning", id |-> msg_id])
                   /\ UNCHANGED newsletters
              ELSE IF sender.raised # ""
              THEN log' = error /\ UNCHANGED newsletters
              ELSE /\ newsletters' = Append(newsletters,
                          [subject |-> msg.subject, sender |-> sender.value, date |-> msg.date,
                           html_content |-> html_content, plain_content |-> msg.plain_content,
                           id |-> msg_id])
                   /\ UNCHANGED log
    /\ todo' = Tail(todo)
    /\ UNCHANGED <<pc, html, soup, subject, start, first, trace, raising, chunks, climbFrom, climbTo,
                   processed>>

\* line 279: the loop is over
FetchLoopDone ==
    /\ pc = "for msg_id"
    /\ todo = <<>>
    /\ pc' = "fetched"
    /\ UNCHANGED <<html, soup, subject, start, first, trace, newsletters, raising, chunks,
                   seen_message_ids, climbFrom, climbTo, todo, processed, log>>

NextFetch == FetchMessage \/ FetchLoopDone

SpecFetch == InitFetch /\ [][NextFetch]_vars

\* the messages the loop ought to turn into items: fetched, with content,
\* inside the time window, and with a Message-ID no earlier message had
Eligible ==
    {i \in 1..Len(start) :
        /\ start[i].status = "OK"
        /\ start[i].date = "in"
        /\ start[i].html_content # <<>> \/ start[i].plain_content # <<>>
        /\ \/ start[i].message_id = ""
           \/ \A j \in 1..(i - 1) :
                  start[j].status = "OK" => start[j].message_id # start[i].message_id}

FetchedIds == {newsletters[k].id : k \in 1..Len(newsletters)}

\* what the loop does instead: every eligible message ends in the except
\* clause of line 268, and no item is ever appended
NoMessageFetched ==
    pc = "fetched" =>
        /\ newsletters = <<>>
        /\ Eligible \subseteq Logged("error")

\* C30: extract_real_sender returns a sender for every message and never
\* raises, so the loop of fetch_newsletters yields one item, with a non-empty
\* sender, for every fetched message that has content, lies inside the time
\* window and has a Message-ID not seen before
C30_EveryEligibleMessageFetched ==
    pc = "fetched" =>
        /\ FetchedIds = Eligible
        /\ Cardinality(FetchedIds) = Len(newsletters)
        /\ \A k \in 1..Len(newsletters) : newsletters[k].sender # <<>>

====
